---- MODULE Spec2Model ----
(***************************************************************************)
(* Analysis orchestration and normalization core of AI_NurtureNote         *)
(* (src/app/analysis.py, src/app/analysis_normalization.py,                *)
(* src/app/config.py, src/app/tasks.py).                                   *)
(*                                                                         *)
(* Python values are encoded as tagged records:                            *)
(*   None   [t |-> "null"]            bool  [t |-> "bool", b |-> TRUE]     *)
(*   int    [t |-> "num", n |-> 1]    str   [t |-> "str", s |-> <<chars>>] *)
(*   list   [t |-> "list", l |-> <<values>>]                               *)
(*   dict   [t |-> "dict", kv |-> <<[k |-> key, v |-> value], ...>>]       *)
(* A Python string is a sequence of one-character strings; a few fixed     *)
(* texts (the disclaimer, dictionary keys inside a repr) are kept as one   *)
(* opaque element of such a sequence.                                      *)
(***************************************************************************)
EXTENDS Integers, Sequences, FiniteSets, TLC

(***************************************************************************)
(* Python values                                                           *)
(***************************************************************************)
PyNone == [t |-> "null"]
PyBool(b) == [t |-> "bool", b |-> b]
PyNum(n) == [t |-> "num", n |-> n]
PyStr(s) == [t |-> "str", s |-> s]
PyList(l) == [t |-> "list", l |-> l]
PyDict(kv) == [t |-> "dict", kv |-> kv]
KV(k, v) == [k |-> k, v |-> v]

\* config.py: DISCLAIMER, the fixed default disclaimer text.
DISCLAIMER == <<"(default disclaimer)">>

\* Python truthiness, as used by "if not item" / "if value".
Truthy(v) ==
    CASE v.t = "null" -> FALSE
      [] v.t = "bool" -> v.b
      [] v.t = "num" -> v.n # 0
      [] v.t = "str" -> Len(v.s) > 0
      [] v.t = "list" -> Len(v.l) > 0
      [] v.t = "dict" -> Len(v.kv) > 0

\* dict.__contains__ and dict.get(key, default).
HasKey(d, key) == \E i \in 1..Len(d.kv) : d.kv[i].k = key

\* dict.get(key) in place of dict.get(key, default).
DictGetWithoutDefault(d, key, default) ==
    IF HasKey(d, key)
    THEN d.kv[CHOOSE i \in 1..Len(d.kv) : d.kv[i].k = key].v
    ELSE PyNone

DictGet(d, key, default) ==
    IF HasKey(d, key)
    THEN d.kv[CHOOSE i \in 1..Len(d.kv) : d.kv[i].k = key].v
    ELSE default

(***************************************************************************)
(* Strings                                                                 *)
(***************************************************************************)
Whitespace == {" ", "\t", "\n", "\r"}

RECURSIVE LStripChars(_, _)
LStripChars(s, chars) ==
    IF Len(s) > 0 /\ Head(s) \in chars THEN LStripChars(Tail(s), chars) ELSE s

RECURSIVE RStripChars(_, _)
RStripChars(s, chars) ==
    IF Len(s) > 0 /\ s[Len(s)] \in chars
    THEN RStripChars(SubSeq(s, 1, Len(s) - 1), chars)
    ELSE s

\* str.strip(chars) and str.strip()
StripChars(s, chars) == LStripChars(RStripChars(s, chars), chars)
Strip(s) == StripChars(s, Whitespace)

RECURSIVE Join(_, _)
Join(parts, sep) ==
    IF Len(parts) = 0 THEN <<>>
    ELSE IF Len(parts) = 1 THEN parts[1]
    ELSE parts[1] \o sep \o Join(Tail(parts), sep)

RECURSIVE Digits(_)
Digits(n) ==
    LET d == <<"0", "1", "2", "3", "4", "5", "6", "7", "8", "9">>
    IN IF n < 10 THEN <<d[n + 1]>> ELSE Digits(n \div 10) \o <<d[(n % 10) + 1]>>

\* repr(value) and str(value): str of a str is the string itself, inside a
\* container a str is quoted.
RECURSIVE Repr(_)
RECURSIVE ReprItems(_)
RECURSIVE ReprPairs(_)
Repr(v) ==
    CASE v.t = "null" -> <<"None">>
      [] v.t = "bool" -> IF v.b THEN <<"True">> ELSE <<"False">>
      [] v.t = "num" -> IF v.n < 0 THEN <<"-">> \o Digits(0 - v.n) ELSE Digits(v.n)
      [] v.t = "str" -> <<"'">> \o v.s \o <<"'">>
      [] v.t = "list" -> <<"[">> \o Join(ReprItems(v.l), <<",", " ">>) \o <<"]">>
      [] v.t = "dict" -> <<"{">> \o Join(ReprPairs(v.kv), <<",", " ">>) \o <<"}">>
ReprItems(l) ==
    IF Len(l) = 0 THEN <<>> ELSE <<Repr(Head(l))>> \o ReprItems(Tail(l))
ReprPairs(kv) ==
    IF Len(kv) = 0 THEN <<>>
    ELSE <<(<<"'", Head(kv).k, "'", ":", " ">> \o Repr(Head(kv).v))>> \o ReprPairs(Tail(kv))

str(v) == IF v.t = "str" THEN v.s ELSE Repr(v)

(***************************************************************************)
(* analysis_normalization.py                                               *)
(***************************************************************************)
\* NEWLINE_SPLIT_PATTERN.split(s) for the pattern \r?\n+ : the pieces of s
\* between the leftmost greedy matches.
RECURSIVE SkipNewlines(_)
SkipNewlines(s) == IF Len(s) > 0 /\ Head(s) = "\n" THEN SkipNewlines(Tail(s)) ELSE s

RECURSIVE SplitFrom(_, _)
SplitFrom(s, cur) ==
    IF Len(s) = 0 THEN <<cur>>
    ELSE IF Head(s) = "\n" THEN <<cur>> \o SplitFrom(SkipNewlines(s), <<>>)
    ELSE IF Head(s) = "\r" /\ Len(s) > 1 /\ s[2] = "\n"
         THEN <<cur>> \o SplitFrom(SkipNewlines(Tail(s)), <<>>)
    ELSE SplitFrom(Tail(s), Append(cur, Head(s)))

NEWLINE_SPLIT(s) == SplitFrom(s, <<>>)

\* The backward scan of extract_trailing_parenthetical from position index
\* with the depth counted so far: the index of the opening parenthesis that
\* brings the depth back to zero, or 0 when the scan ends without one.
RECURSIVE ScanBack(_, _, _)
ScanBack(text, index, depth) ==
    IF index = 0 THEN 0
    ELSE IF text[index] = ")" THEN ScanBack(text, index - 1, depth + 1)
    ELSE IF text[index] = "("
         THEN IF depth - 1 = 0 THEN index
              ELSE IF depth - 1 < 0 THEN 0
              ELSE ScanBack(text, index - 1, depth - 1)
    ELSE ScanBack(text, index - 1, depth)

\* extract_trailing_parenthetical: found = FALSE stands for None.
extract_trailing_parenthetical(text) ==
    IF Len(text) = 0 \/ text[Len(text)] # ")"
    THEN [found |-> FALSE]
    ELSE LET at == ScanBack(text, Len(text), 0)
         IN IF at = 0 THEN [found |-> FALSE]
            ELSE [found |-> TRUE,
                  preceding |-> SubSeq(text, 1, at - 1),
                  parenthetical |-> SubSeq(text, at, Len(text))]

\* normalize_analysis_list: a Python list of values (tuples never come out
\* of json.loads).
normalize_analysis_list(value) ==
    IF value.t = "null" THEN <<>>
    ELSE IF value.t = "list" THEN value.l
    ELSE <<value>>

\* normalize_dict_items without the {"text": ...} wrapping of non-dict items.
KeepTruthyItems(items) == SelectSeq(items, Truthy)

RECURSIVE normalize_dict_items(_)
normalize_dict_items(items) ==
    IF Len(items) = 0 THEN <<>>
    ELSE LET item == Head(items)
             rest == normalize_dict_items(Tail(items))
         IN IF ~Truthy(item) THEN rest
            ELSE IF item.t = "dict" THEN <<item>> \o rest
            ELSE IF Len(Strip(str(item))) > 0
                 THEN <<PyDict(<<KV("text", PyStr(Strip(str(item))))>>)>> \o rest
            ELSE rest

RECURSIVE TruthyStrs(_)
TruthyStrs(items) ==
    IF Len(items) = 0 THEN <<>>
    ELSE IF Truthy(Head(items)) THEN <<str(Head(items))>> \o TruthyStrs(Tail(items))
    ELSE TruthyStrs(Tail(items))

normalize_disclaimer(value) ==
    IF value.t = "null" THEN DISCLAIMER
    ELSE IF value.t = "list"
         THEN IF Len(TruthyStrs(value.l)) > 0
              THEN Join(TruthyStrs(value.l), <<" ">>)
              ELSE DISCLAIMER
    ELSE str(value)

\* [str(item).strip() for item in items if item]
RECURSIVE StrippedItems(_)
StrippedItems(items) ==
    IF Len(items) = 0 THEN <<>>
    ELSE IF Truthy(Head(items))
         THEN <<Strip(str(Head(items)))>> \o StrippedItems(Tail(items))
    ELSE StrippedItems(Tail(items))

\* The evidence branch of child_development_insights (lines 123-131).
RECURSIVE EvidenceInsights(_)
EvidenceInsights(items) ==
    IF Len(items) = 0 THEN <<>>
    ELSE LET ev == Head(items)
             rest == EvidenceInsights(Tail(items))
             summary == DictGet(ev, "summary", PyNone)
             txt == DictGet(ev, "text", PyNone)
             quote == DictGet(ev, "quote", PyNone)
             text == IF Truthy(summary) THEN summary
                     ELSE IF Truthy(txt) THEN txt ELSE quote
         IN IF ~Truthy(ev) THEN rest
            ELSE IF ev.t = "dict"
                 THEN IF Truthy(text) THEN <<Strip(str(text))>> \o rest ELSE rest
            ELSE <<Strip(str(ev))>> \o rest

\* The texts of the sources already known (lines 140-145).
RECURSIVE SourceTexts(_)
SourceTexts(sources) ==
    IF Len(sources) = 0 THEN {}
    ELSE LET text == DictGet(Head(sources), "text", PyNone)
         IN (IF text.t = "str" /\ Len(Strip(text.s)) > 0 THEN {Strip(text.s)} ELSE {})
            \cup SourceTexts(Tail(sources))

RECURSIVE NonEmptyStripped(_)
NonEmptyStripped(pieces) ==
    IF Len(pieces) = 0 THEN <<>>
    ELSE IF Len(Strip(Head(pieces))) > 0
         THEN <<Strip(Head(pieces))>> \o NonEmptyStripped(Tail(pieces))
    ELSE NonEmptyStripped(Tail(pieces))

\* raw_guideline_items (lines 147-156).
RECURSIVE RawGuidelineItems(_)
RawGuidelineItems(items) ==
    IF Len(items) = 0 THEN <<>>
    ELSE LET item == Head(items)
             rest == RawGuidelineItems(Tail(items))
         IN IF ~Truthy(item) THEN rest
            ELSE IF item.t = "str" THEN NonEmptyStripped(NEWLINE_SPLIT(item.s)) \o rest
            ELSE <<str(item)>> \o rest

\* The loop over raw_guideline_items (lines 158-179), carrying the
\* guidelines, the sources and the known source texts.
RECURSIVE GuidelineLoop(_, _, _, _)
GuidelineLoop(lines, guidelines, sources, texts) ==
    IF Len(lines) = 0 THEN [guidelines |-> guidelines, sources |-> sources]
    ELSE LET line == Strip(Head(lines))
             extracted == extract_trailing_parenthetical(line)
             inner_text == IF extracted.found
                           THEN StripChars(Strip(extracted.parenthetical), {"(", ")", " "})
                           ELSE <<>>
             citation == extracted.found /\ Len(inner_text) > 0
             text_val == IF citation
                         THEN Strip(RStripChars(extracted.preceding, {" ", ";", ",", "."}))
                         ELSE line
             cite_clean == Strip(inner_text)
             added == citation /\ Len(cite_clean) > 0 /\ cite_clean \notin texts
         IN IF Len(line) = 0
            THEN GuidelineLoop(Tail(lines), guidelines, sources, texts)
            ELSE GuidelineLoop(
                    Tail(lines),
                    IF Len(text_val) > 0 THEN Append(guidelines, text_val) ELSE guidelines,
                    IF added
                    THEN Append(sources, PyDict(<<KV("text", PyStr(cite_clean))>>))
                    ELSE sources,
                    IF added THEN texts \cup {cite_clean} ELSE texts)

EmptyAnalysis ==
    [maternal_feedback |-> <<>>,
     child_development_insights |-> <<>>,
     parenting_guidelines |-> <<>>,
     sources |-> <<>>,
     disclaimer |-> DISCLAIMER]

normalize_analysis_payload(data) ==
    IF data.t = "null" THEN EmptyAnalysis
    ELSE IF data.t # "dict"
         THEN [EmptyAnalysis EXCEPT !.maternal_feedback = <<str(data)>>]
    ELSE LET legacy_obs == normalize_analysis_list(DictGet(data, "observations", PyNone))
             normalized_sources ==
                 normalize_dict_items(normalize_analysis_list(
                     DictGet(data, "sources", DictGet(data, "citations", PyNone))))
             loop == GuidelineLoop(
                         RawGuidelineItems(normalize_analysis_list(
                             DictGet(data, "parenting_guidelines",
                                     DictGet(data, "advice", PyNone)))),
                         <<>>, normalized_sources, SourceTexts(normalized_sources))
         IN [maternal_feedback |->
                 StrippedItems(normalize_analysis_list(
                     DictGet(data, "maternal_feedback",
                             DictGet(data, "observations", PyNone)))),
             child_development_insights |->
                 IF HasKey(data, "child_development_insights")
                 THEN StrippedItems(normalize_analysis_list(
                          DictGet(data, "child_development_insights", PyNone)))
                 ELSE IF Len(legacy_obs) > 0 THEN StrippedItems(legacy_obs)
                 ELSE EvidenceInsights(normalize_analysis_list(
                          DictGet(data, "evidence", PyNone))),
             parenting_guidelines |-> loop.guidelines,
             sources |-> loop.sources,
             disclaimer |-> normalize_disclaimer(DictGet(data, "disclaimer", PyNone))]

\* The dict that a result of normalize_analysis_payload is for its next
\* reader: what json.loads gives for the json.dumps of the result (db.py,
\* persist_entry_analysis and _parse_analysis_blob), strings and lists of
\* strings as they are, the sources as the dicts they are.
StrList(items) == PyList([i \in 1..Len(items) |-> PyStr(items[i])])
AnalysisDict(result) ==
    PyDict(<<KV("maternal_feedback", StrList(result.maternal_feedback)),
             KV("child_development_insights", StrList(result.child_development_insights)),
             KV("parenting_guidelines", StrList(result.parenting_guidelines)),
             KV("sources", PyList(result.sources)),
             KV("disclaimer", PyStr(result.disclaimer))>>)

(***************************************************************************)
(* config.py                                                               *)
(***************************************************************************)
\* str.lower() on the letters the flag values use.
LowerChar(c) ==
    CASE c = "T" -> "t" [] c = "R" -> "r" [] c = "U" -> "u" [] c = "E" -> "e"
      [] c = "O" -> "o" [] c = "N" -> "n" [] c = "Y" -> "y" [] c = "S" -> "s"
      [] OTHER -> c

Lower(s) == [i \in 1..Len(s) |-> LowerChar(s[i])]

\* _DEFAULT_ENABLE_WEB_SEARCH
DEFAULT_ENABLE_WEB_SEARCH == <<"t", "r", "u", "e">>

\* is_web_search_enabled: raw is the value of REPORT_ENABLE_WEB_SEARCH, or
\* [set |-> FALSE] when the variable is not set.
is_web_search_enabled(raw) ==
    Lower(Strip(IF raw.set THEN raw.s ELSE DEFAULT_ENABLE_WEB_SEARCH))
        \in {<<"1">>, <<"t", "r", "u", "e">>, <<"y", "e", "s">>, <<"o", "n">>}

\* get_allowed_web_domains with REPORT_WEB_ALLOWED_DOMAINS unset: the head
\* of the default allow-list.
get_allowed_web_domains == PyList(<<PyStr(<<"who.int">>), PyStr(<<"cdc.gov">>)>>)

\* get_model_name and get_vector_store_id with their variables unset.
get_model_name == <<"gpt-5">>
get_vector_store_id == <<"vs_default">>

(***************************************************************************)
(* analysis.py: _strip_code_fence                                          *)
(***************************************************************************)
\* The backtick character, written as a caret in this module.
Backtick == "^"

\* s has the three backticks at position i.
FenceAt(s, i) ==
    i + 2 <= Len(s) /\ s[i] = Backtick /\ s[i + 1] = Backtick
                   /\ s[i + 2] = Backtick

\* str.find and str.rfind as 1-based positions, 0 for -1.
Lowest1(S) == IF S = {} THEN 0 ELSE CHOOSE i \in S : \A j \in S : i <= j
Highest1(S) == IF S = {} THEN 0 ELSE CHOOSE i \in S : \A j \in S : i >= j

strip_code_fence(text) ==
    LET stripped == Strip(text)
        body == SubSeq(stripped, 4, Len(stripped))
        newline_index == Lowest1({i \in 1..Len(body) : body[i] = "\n"})
        after_line == IF newline_index # 0
                      THEN SubSeq(body, newline_index + 1, Len(body))
                      ELSE body
        closing_index == Highest1({i \in 1..Len(after_line) : FenceAt(after_line, i)})
        fenced == IF closing_index # 0
                  THEN SubSeq(after_line, 1, closing_index - 1)
                  ELSE after_line
    IN IF ~FenceAt(stripped, 1) THEN stripped ELSE Strip(fenced)

(***************************************************************************)
(* Bounds of the model                                                     *)
(***************************************************************************)
\* Calls of request_analysis started one after the other in a behaviour.
SeqCalls == 1
\* File names the audit recorder can draw (timestamp + uuid4 in the code).
NumNames == 2

\* Length of the texts given to _strip_code_fence.
MaxFenceLen == 9
\* Number of keys in the dicts given to normalize_analysis_payload.
MaxKeys == 2
\* Number of messages in the thread listed by call_assistants_api.
MaxMessages == 2

Names == 1..NumNames

\* The worker threads serving requests.
Workers == {"w1", "w2"}

(***************************************************************************)
(* State                                                                   *)
(***************************************************************************)
VARIABLES
    environ,            \* os.environ and the installed SDK, fixed per process
    openai_client,      \* analysis._openai_client: 0 is None, else a handle
    clients_built,      \* OpenAI(...) constructions so far
    assistant_file,     \* ASSISTANT_ID_FILE
    assistants_created, \* profiles created upstream by this process
    cache_writes,       \* history: identifiers written to ASSISTANT_ID_FILE
                        \* after a creation, with the calls started by then
    responses_dir,      \* RESPONSES_DIR: name -> file
    runs,               \* upstream run of each worker's thread
    call,               \* each worker's request_analysis activation
    started,            \* calls of request_analysis started so far
    entries_table,      \* the entries table: id -> row, with the history of
                        \* the values written to analysis_json
    fn_arg,             \* a function of the module applied on its own: its
    fn_ret              \* argument, and what it returned

vars == <<environ, openai_client, clients_built, assistant_file,
          assistants_created, cache_writes, responses_dir, runs, call, started,
          entries_table, fn_arg, fn_ret>>

\* The variables only a function applied on its own uses.
pure == <<fn_arg, fn_ret>>
NoFunction == [fn |-> "none"]
NotReturned == [done |-> FALSE]
ReturnedValue(v) == [done |-> TRUE, value |-> v]

\* dict[key] = value and dict.setdefault(key, value)
DictSet(d, key, value) ==
    IF HasKey(d, key)
    THEN PyDict([i \in 1..Len(d.kv) |->
                    IF d.kv[i].k = key THEN KV(key, value) ELSE d.kv[i]])
    ELSE PyDict(Append(d.kv, KV(key, value)))

SetDefault(d, key, value) == IF HasKey(d, key) THEN d ELSE DictSet(d, key, value)

HTTPException(status, detail) == [status |-> status, detail |-> detail]

NoOutcome == [kind |-> "none"]
Returned(value) == [kind |-> "return", value |-> value]
Raises(exc) == [kind |-> "raise", exc |-> exc]

\* What an activation has done so far: invocations of call_responses_api (A)
\* and call_assistants_api (B) and the one invoked first, calls of
\* get_openai_client, whether a request went upstream, the protocol clients
\* that raised and the exception of call_assistants_api, the one that returned a
\* payload, what the cache file read gave, profiles created, polls made
\* after a terminal status was retrieved, message listings, and how the
\* attempts to write the audit file ended.
NoHist == [A |-> 0, B |-> 0, first |-> "none", inits |-> 0, net |-> FALSE,
           failed |-> {}, last_exc |-> [status |-> 0], returned |-> "none",
           seen |-> [kind |-> "unread"], created |-> 0,
           polled_after_terminal |-> FALSE, listed |-> 0,
           exists |-> 0, written |-> 0, aborted |-> 0]

\* The rows of the entries table: the entry ids that a caller can name, one
\* of which has a row; analysis_json holds, in order, the values that
\* UPDATE statements wrote to the column.
EntryIds == {1, 2}
StoredEntries ==
    [e \in EntryIds |-> [exists |-> e = 1, analysis_json |-> <<>>]]

NoArgs == [entries |-> <<>>, question |-> PyNone, use_web_search |-> PyNone,
           raise_on_failure |-> TRUE, metadata |-> PyNone]

IdleCall ==
    [pc |-> "idle", id |-> 0, args |-> NoArgs, proto |-> "none", fallback |-> FALSE,
     client |-> 0, assistant_id |-> [src |-> "none"], run_status |-> "none",
     payload |-> PyNone, meta |-> PyNone, attempts |-> 0, audit |-> "none",
     outcome |-> NoOutcome, hist |-> NoHist,
     task |-> [pc |-> "none"]]     \* the background task (tasks.py) it runs for

\* The request inputs a caller can pass.
QuestionInputs == {PyNone, PyStr(<<"q">>)}
WebSearchInputs == {PyNone, PyBool(TRUE), PyBool(FALSE)}
MetadataInputs ==
    {PyNone,
     PyDict(<<KV("type", PyStr(<<"report">>))>>),
     PyDict(<<KV("engine", PyStr(<<"custom">>)),
              KV("fallback_from_responses", PyBool(TRUE))>>)}

\* Every combination for a call without entries; with entries, the question
\* (which only goes into the prompt and the audit record) is left out.
ArgsInputs ==
    [entries : {<<>>}, question : QuestionInputs,
     use_web_search : WebSearchInputs, raise_on_failure : BOOLEAN,
     metadata : MetadataInputs]
    \cup
    [entries : {<<1>>}, question : {PyNone},
     use_web_search : WebSearchInputs, raise_on_failure : BOOLEAN,
     metadata : MetadataInputs]

\* Values of REPORT_ENABLE_WEB_SEARCH.
FlagInputs ==
    {[set |-> FALSE],
     [set |-> TRUE, s |-> <<" ", "O", "n", "\n">>],
     [set |-> TRUE, s |-> <<"n", "o">>]}

\* The process environment: whether OPENAI_API_KEY and OPENAI_ASSISTANT_ID
\* are set, the value of REPORT_ENABLE_WEB_SEARCH, and the installed SDK
\* (complete, lacking the Assistants beta endpoints, or rejecting the
\* constructor arguments).
DefaultEnv ==
    [api_key |-> TRUE, sdk |-> "ok", web_flag |-> [set |-> FALSE],
     assistant_id |-> FALSE]

HealthyEnvs ==
    [api_key : {TRUE}, sdk : {"ok"}, web_flag : FlagInputs, assistant_id : {FALSE}]
    \cup {[DefaultEnv EXCEPT !.assistant_id = TRUE]}

BrokenEnvs ==
    {[api_key |-> FALSE, sdk |-> "ok", web_flag |-> [set |-> FALSE],
      assistant_id |-> FALSE],
     [api_key |-> TRUE, sdk |-> "no_beta", web_flag |-> [set |-> FALSE],
      assistant_id |-> FALSE],
     [api_key |-> TRUE, sdk |-> "ctor_error", web_flag |-> [set |-> FALSE],
      assistant_id |-> FALSE]}

EnvInputs == HealthyEnvs \cup BrokenEnvs

AbsentFile == [state |-> "absent"]
OldFile == [state |-> "old"]

EmptyId == [src |-> "empty"]
EnvId == [src |-> "env"]
EarlierId == [src |-> "earlier"]
CreatedId(n) == [src |-> "created", n |-> n]

\* The process when it starts serving: no client handle yet; earlier runs
\* of the program may have left a cached assistant identifier or an empty
\* cache file, and audit files under every name (taken with the default
\* environment) or none.
Init ==
    /\ environ \in EnvInputs
    /\ clients_built = 0
    /\ openai_client = 0
    /\ assistant_file \in {[exists |-> FALSE],
                           [exists |-> TRUE, id |-> EarlierId],
                           [exists |-> TRUE, id |-> EmptyId]}
    /\ assistants_created = 0
    /\ cache_writes = {}
    /\ \/ responses_dir = [n \in Names |-> AbsentFile]
       \/ responses_dir = [n \in Names |-> OldFile] /\ environ = DefaultEnv
    /\ runs = [w \in Workers |-> "none"]
    /\ call = [w \in Workers |-> IdleCall]
    /\ started = 0
    /\ entries_table = StoredEntries
    /\ fn_arg = NoFunction
    /\ fn_ret = NotReturned

(***************************************************************************)
(* analysis.py: request_analysis, entry and exception handling             *)
(***************************************************************************)
\* use_ws_effective with a flag that can switch web search on against the
\* caller's override (sensitivity of C4).
use_ws_flag_wins(args, env) ==
    \/ is_web_search_enabled(env.web_flag)
    \/ args.use_web_search.t # "null" /\ args.use_web_search.b

\* Lines 435-437.
use_ws_effective(args, env) ==
    IF args.use_web_search.t = "null"
    THEN is_web_search_enabled(env.web_flag)
    ELSE args.use_web_search.b

\* Begin without the check of lines 401-403 (sensitivity of C1).
BeginWithoutEmptyCheck(args, env, id) ==
    LET c == [IdleCall EXCEPT !.id = id, !.args = args]
    IN IF use_ws_effective(args, env)
       THEN [c EXCEPT !.pc = "client", !.proto = "A", !.hist.A = 1,
                      !.hist.first = "A"]
       ELSE [c EXCEPT !.pc = "client", !.proto = "B", !.hist.B = 1,
                      !.hist.first = "B"]

\* Lines 401-403 and 434-462: the activation that a call with these
\* arguments starts, up to the entry of the first protocol client.
Begin(args, env, id) ==
    LET c == [IdleCall EXCEPT !.id = id, !.args = args]
    IN IF Len(args.entries) = 0
       THEN [c EXCEPT !.pc = "done",
                      !.outcome = Returned(normalize_analysis_payload(PyNone))]
       ELSE IF use_ws_effective(args, env)
            THEN [c EXCEPT !.pc = "client", !.proto = "A", !.hist.A = 1,
                           !.hist.first = "A"]
            ELSE [c EXCEPT !.pc = "client", !.proto = "B", !.hist.B = 1,
                           !.hist.first = "B"]

\* The outer handler re-raising whatever the failure mode (sensitivity of C3).
SurfaceAlwaysRaises(c, exc) ==
    [c EXCEPT !.pc = "done", !.outcome = Raises(exc)]

\* Lines 479-483: the outer handler of an HTTPException.
SurfaceHTTPException(c, exc) ==
    [c EXCEPT !.pc = "done",
              !.outcome = IF c.args.raise_on_failure
                          THEN Raises(exc)
                          ELSE Returned(normalize_analysis_payload(PyNone))]

\* A handler that gives call_assistants_api a second try after its first
\* failure (sensitivity of C2).
FallbackChain(c, exc) ==
    IF c.proto = "A" \/ c.hist.B < 2
    THEN [c EXCEPT !.pc = "client", !.proto = "B", !.fallback = TRUE,
                   !.hist.B = @ + 1]
    ELSE SurfaceHTTPException(c, exc)

\* Lines 448-453 and 479-483: an HTTPException raised while activation c
\* is inside a protocol client. Inside call_responses_api it is caught by
\* the inner handler, which calls call_assistants_api; elsewhere it reaches
\* the outer handler.
OnHTTPException(c, exc) ==
    IF c.proto = "A"
    THEN [c EXCEPT !.pc = "client", !.proto = "B", !.fallback = TRUE,
                   !.hist.B = @ + 1]
    ELSE SurfaceHTTPException(c, exc)

\* A protocol client of activation c raises exc. The history keeps the
\* exception of call_assistants_api; the one of call_responses_api is logged
\* and dropped by the handler of line 448.
Raise(c, exc) ==
    OnHTTPException([c EXCEPT !.hist.failed = @ \cup {c.proto},
                              !.hist.last_exc =
                                  IF c.proto = "B" THEN exc ELSE @], exc)

\* Lines 484-490: the outer handler of any other exception.
OnException(c) ==
    [c EXCEPT !.pc = "done",
              !.outcome =
                  IF c.args.raise_on_failure
                  THEN Raises(HTTPException(502,
                           "Failed to generate analysis from language model."))
                  ELSE Returned(normalize_analysis_payload(PyNone))]

\* The metadata with engine assigned like web_search_enabled, in place of
\* setdefault (sensitivity of C17).
BuildMetaAssigningEngine(c) ==
    LET base == IF Truthy(c.args.metadata) THEN c.args.metadata ELSE PyDict(<<>>)
        m1 == DictSet(base, "engine",
                  PyStr(IF c.proto = "A" THEN <<"responses">> ELSE <<"assistants">>))
        m2 == DictSet(m1, "web_search_enabled", PyBool(c.proto = "A"))
    IN IF c.fallback THEN DictSet(m2, "fallback_from_responses", PyBool(TRUE)) ELSE m2

\* Lines 441-446, 454-459, 463-467: the metadata of the audit record.
BuildMeta(c) ==
    LET base == IF Truthy(c.args.metadata) THEN c.args.metadata ELSE PyDict(<<>>)
        m1 == SetDefault(base, "engine",
                  PyStr(IF c.proto = "A" THEN <<"responses">> ELSE <<"assistants">>))
        m2 == DictSet(m1, "web_search_enabled", PyBool(c.proto = "A"))
        m3 == IF c.args.use_web_search.t # "null"
              THEN DictSet(m2, "user_web_search_override", c.args.use_web_search)
              ELSE m2
        m4 == IF c.proto = "A"
              THEN DictSet(m3, "allowed_domains", get_allowed_web_domains)
              ELSE IF c.fallback
                   THEN DictSet(m3, "fallback_from_responses", PyBool(TRUE))
              ELSE m3
    IN m4

\* A protocol client returned payload: lines 440-447, 453-460, 462-468 up
\* to the call of persist_model_response.
OnPayload(c, payload) ==
    [c EXCEPT !.pc = "persist", !.payload = payload, !.meta = BuildMeta(c),
              !.attempts = 0, !.hist.returned = c.proto]

\* Lines 406-408: user_question.
DEFAULT_QUESTION == <<"(default question)">>
user_question(question) ==
    Strip(IF Truthy(question) THEN question.s ELSE DEFAULT_QUESTION)

request_analysis(w, I) ==
    /\ call[w].pc = "idle"
    /\ started < I.calls
    /\ \E args \in I.args :
           call' = [call EXCEPT ![w] = Begin(args, environ, started + 1)]
    /\ started' = started + 1
    /\ runs' = [runs EXCEPT ![w] = "none"]
    /\ UNCHANGED <<pure, entries_table, environ, cache_writes, openai_client, clients_built, assistant_file,
                   assistants_created, responses_dir>>

(***************************************************************************)
(* analysis.py: get_openai_client                                          *)
(***************************************************************************)
\* Where a protocol client continues once it holds the client handle.
AfterClient(c, handle) ==
    [c EXCEPT !.client = handle,
              !.pc = IF c.proto = "A" THEN "responses" ELSE "assistant"]

\* Lines 63-73: the check of the cached handle and of the API key.
ClientCheck(c, cached, env) ==
    LET c1 == [c EXCEPT !.hist.inits = @ + 1]
    IN IF cached # 0 THEN AfterClient(c1, cached)
       ELSE IF ~env.api_key
            THEN Raise(c1, HTTPException(500,
                     "OPENAI_API_KEY environment variable is not configured."))
       ELSE [c1 EXCEPT !.pc = "client_build"]

get_openai_client(w) ==
    /\ call[w].pc = "client"
    /\ call' = [call EXCEPT ![w] = ClientCheck(call[w], openai_client, environ)]
    /\ UNCHANGED <<pure, entries_table, environ, cache_writes, openai_client, clients_built, assistant_file,
                   assistants_created, responses_dir, runs, started>>

\* Line 82: _openai_client = OpenAI(**client_kwargs); a constructor that
\* raises leaves the global as it was (lines 96-101).
build_openai_client(w) ==
    /\ call[w].pc = "client_build"
    /\ IF environ.sdk = "ctor_error"
       THEN /\ call' = [call EXCEPT ![w] = Raise(call[w],
                            HTTPException(500,
                                "Failed to initialize OpenAI client; check OPENAI_* configuration."))]
            /\ UNCHANGED <<openai_client, clients_built>>
       ELSE /\ openai_client' = clients_built + 1
            /\ clients_built' = clients_built + 1
            /\ call' = [call EXCEPT ![w].pc = "client_validate"]
    /\ UNCHANGED <<pure, entries_table, environ, cache_writes, assistant_file, assistants_created, responses_dir,
                   runs, started>>

\* Lines 83-108: the check for the Assistants endpoints, and the return of
\* the global as it is then.
ClientValidate(c, cached, env) ==
    IF env.sdk = "no_beta"
    THEN Raise(c, HTTPException(500, "Failed to initialize OpenAI client."))
    ELSE AfterClient(c, cached)

validate_openai_client(w) ==
    /\ call[w].pc = "client_validate"
    /\ call' = [call EXCEPT ![w] = ClientValidate(call[w], openai_client, environ)]
    /\ UNCHANGED <<pure, entries_table, environ, cache_writes, openai_client, clients_built, assistant_file,
                   assistants_created, responses_dir, runs, started>>

(***************************************************************************)
(* analysis.py: call_responses_api (Protocol A)                            *)
(***************************************************************************)
\* _extract_url_annotations over the annotations of the response's message
\* contents, in order; seen is the set of keys of urls.
RECURSIVE ExtractFrom(_, _)
ExtractFrom(annotations, seen) ==
    IF Len(annotations) = 0 THEN <<>>
    ELSE LET ann == Head(annotations)
             url == IF Truthy(ann.url) THEN ann.url ELSE ann.source_url
             title == IF Truthy(ann.title) THEN ann.title ELSE ann.text
             key == Strip(str(url))
             item == IF Truthy(title)
                     THEN PyDict(<<KV("url", PyStr(key)), KV("title", PyStr(str(title)))>>)
                     ELSE PyDict(<<KV("url", PyStr(key))>>)
         IN IF ~Truthy(url) \/ Len(key) = 0 \/ key \in seen
            THEN ExtractFrom(Tail(annotations), seen)
            ELSE <<item>> \o ExtractFrom(Tail(annotations), seen \cup {key})

extract_url_annotations(response) == ExtractFrom(response.annotations, {})

\* The keys of by_url (line 237).
ByUrlKeys(sources) ==
    {DictGet(sources[i], "url", PyNone) :
        i \in {j \in 1..Len(sources) : sources[j].t = "dict"}}

RECURSIVE NewAnnotations(_, _)
NewAnnotations(ann_sources, keys) ==
    IF Len(ann_sources) = 0 THEN <<>>
    ELSE LET url == DictGet(Head(ann_sources), "url", PyNone)
         IN (IF Truthy(url) /\ url \notin keys THEN <<Head(ann_sources)>> ELSE <<>>)
            \o NewAnnotations(Tail(ann_sources), keys)

\* Lines 232-241: sources set from, or merged with, the annotation sources;
\* ok = FALSE when a statement of these lines raises (iterating a number,
\* an unhashable url, append on a value that is no list).
MergeSources(parsed, ann_sources) ==
    LET sources == DictGet(parsed, "sources", PyNone)
    IN IF Len(ann_sources) = 0
       THEN [ok |-> TRUE, value |-> parsed]
       ELSE IF ~Truthy(sources)
            THEN [ok |-> TRUE, value |-> DictSet(parsed, "sources", PyList(ann_sources))]
       ELSE IF sources.t \in {"num", "bool"}
            THEN [ok |-> FALSE]
       ELSE IF sources.t = "list"
            THEN IF \E k \in ByUrlKeys(sources.l) : k.t \in {"list", "dict"}
                 THEN [ok |-> FALSE]
                 ELSE [ok |-> TRUE,
                       value |-> DictSet(parsed, "sources",
                                    PyList(sources.l \o
                                        NewAnnotations(ann_sources, ByUrlKeys(sources.l))))]
       ELSE [ok |-> FALSE]

\* Lines 243-245: annotations appended to legacy citations when the payload
\* still has no sources; list + list, anything else raises.
AppendToCitations(parsed, ann_sources) ==
    LET citations == DictGet(parsed, "citations", PyNone)
    IN IF ~Truthy(DictGet(parsed, "sources", PyNone)) /\ Truthy(citations)
          /\ Len(ann_sources) > 0
       THEN IF citations.t = "list"
            THEN [ok |-> TRUE,
                  value |-> DictSet(parsed, "citations",
                                    PyList(citations.l \o ann_sources))]
            ELSE [ok |-> FALSE]
       ELSE [ok |-> TRUE, value |-> parsed]

\* Lines 229-246.
EnrichSources(parsed, ann_sources) ==
    IF parsed.t # "dict" THEN [ok |-> TRUE, value |-> parsed]
    ELSE LET merged == MergeSources(parsed, ann_sources)
         IN IF merged.ok THEN AppendToCitations(merged.value, ann_sources) ELSE merged

\* Lines 199-262: what call_responses_api makes of the upstream's reply.
ResponsesResult(reply) ==
    CASE reply.kind = "error" ->
             [ok |-> FALSE,
              exc |-> HTTPException(502, "Failed to contact language model service.")]
      [] reply.kind = "empty" ->
             [ok |-> FALSE,
              exc |-> HTTPException(502, "Responses API returned empty content.")]
      [] reply.kind = "malformed" ->
             [ok |-> FALSE,
              exc |-> HTTPException(502, "Responses API returned malformed JSON.")]
      [] reply.kind = "json" ->
             LET enriched == EnrichSources(reply.parsed, extract_url_annotations(reply))
             IN IF enriched.ok
                THEN [ok |-> TRUE, payload |-> enriched.value]
                ELSE [ok |-> FALSE,
                      exc |-> HTTPException(502,
                                  "Failed to contact language model service.")]

\* Payloads the upstream model can answer with.
CanonPayload ==
    PyDict(<<KV("maternal_feedback", PyList(<<PyStr(<<"m">>)>>)),
             KV("child_development_insights", PyList(<<PyStr(<<"c">>)>>)),
             KV("parenting_guidelines", PyList(<<PyStr(<<"g", " ", "(", "s", ")">>)>>)),
             KV("sources", PyList(<<PyDict(<<KV("url", PyStr(<<"u">>))>>)>>))>>)

LegacyPayload ==
    PyDict(<<KV("observations", PyList(<<PyStr(<<"o">>)>>)),
             KV("advice", PyList(<<PyStr(<<"a">>)>>)),
             KV("citations", PyList(<<PyStr(<<"k">>)>>))>>)

ListPayload == PyList(<<PyStr(<<"m">>)>>)

\* A payload that names the same page twice in its own sources.
RepeatedSourcePayload ==
    PyDict(<<KV("maternal_feedback", PyList(<<PyStr(<<"m">>)>>)),
             KV("sources", PyList(<<PyDict(<<KV("url", PyStr(<<"u">>))>>),
                                    PyDict(<<KV("url", PyStr(<<"u">>)),
                                             KV("title", PyStr(<<"d">>))>>)>>))>>)

\* A payload whose sources value is a string, not a list.
TextSourcesPayload ==
    PyDict(<<KV("maternal_feedback", PyList(<<PyStr(<<"m">>)>>)),
             KV("sources", PyStr(<<"s">>))>>)

\* A payload of the older schema with evidence items and no observations.
EvidencePayload ==
    PyDict(<<KV("evidence", PyList(<<PyDict(<<KV("summary", PyStr(<<"e">>))>>),
                                     PyStr(<<"f">>)>>)),
             KV("advice", PyList(<<PyStr(<<"a">>)>>))>>)

NoAnnotation == [url |-> PyNone, source_url |-> PyNone, title |-> PyNone, text |-> PyNone]
UrlAnnotation == [NoAnnotation EXCEPT !.url = PyStr(<<"v">>), !.title = PyStr(<<"t">>)]

ErrorReplies == {[kind |-> "error"], [kind |-> "empty"], [kind |-> "malformed"]}

ResponsesReplies ==
    ErrorReplies \cup
    {[kind |-> "json", parsed |-> CanonPayload, annotations |-> <<>>],
     [kind |-> "json", parsed |-> LegacyPayload, annotations |-> <<UrlAnnotation>>],
     [kind |-> "json", parsed |-> ListPayload, annotations |-> <<>>],
     [kind |-> "json", parsed |-> RepeatedSourcePayload, annotations |-> <<>>],
     [kind |-> "json", parsed |-> TextSourcesPayload, annotations |-> <<UrlAnnotation>>],
     [kind |-> "json", parsed |-> EvidencePayload, annotations |-> <<>>]}

ResponsesStep(c, reply) ==
    LET c1 == [c EXCEPT !.hist.net = TRUE]
        res == ResponsesResult(reply)
    IN IF res.ok THEN OnPayload(c1, res.payload) ELSE Raise(c1, res.exc)

call_responses_api(w, I) ==
    /\ call[w].pc = "responses"
    /\ \E reply \in I.responses :
           call' = [call EXCEPT ![w] = ResponsesStep(call[w], reply)]
    /\ UNCHANGED <<pure, entries_table, environ, cache_writes, openai_client, clients_built, assistant_file,
                   assistants_created, responses_dir, runs, started>>

(***************************************************************************)
(* analysis.py: get_or_create_assistant_id and call_assistants_api         *)
(* (Protocol B)                                                            *)
(***************************************************************************)
\* get_or_create_assistant_id without the lines 116-122 that read the cache
\* file (sensitivity of C9).
ResolveWithoutCache(env, file, readable) ==
    IF env.assistant_id THEN [found |-> TRUE, id |-> EnvId]
    ELSE [found |-> FALSE]

\* Lines 112-122: the identifier found without creating a profile, or
\* found = FALSE; readable = FALSE is a read_text that raises.
ResolveAssistant(env, file, readable) ==
    IF env.assistant_id THEN [found |-> TRUE, id |-> EnvId]
    ELSE IF file.exists /\ readable /\ file.id # EmptyId
         THEN [found |-> TRUE, id |-> file.id]
    ELSE [found |-> FALSE]

\* What lines 116-122 would read in the file.
CacheRead(file, readable) ==
    IF ~file.exists THEN [kind |-> "absent"]
    ELSE IF ~readable THEN [kind |-> "unreadable"]
    ELSE IF file.id = EmptyId THEN [kind |-> "empty"]
    ELSE [kind |-> "id", id |-> file.id]

AssistantStep(c, env, file, readable) ==
    LET r == ResolveAssistant(env, file, readable)
        c1 == [c EXCEPT !.hist.seen = CacheRead(file, readable)]
    IN IF r.found THEN [c1 EXCEPT !.assistant_id = r.id, !.pc = "run"]
       ELSE [c1 EXCEPT !.pc = "create_assistant"]

get_or_create_assistant_id(w, I) ==
    /\ call[w].pc = "assistant"
    /\ \E readable \in {TRUE} \cup {FALSE : x \in I.faults \cap {"read"}} :
           call' = [call EXCEPT ![w] =
                        AssistantStep(call[w], environ, assistant_file, readable)]
    /\ UNCHANGED <<pure, entries_table, environ, cache_writes, openai_client, clients_built, assistant_file,
                   assistants_created, responses_dir, runs, started>>

\* A creation whose failure is swallowed like that of the cache write: the
\* call goes on with an identifier no profile has (sensitivity of C24).
create_assistant_swallowing(w, I) ==
    /\ call[w].pc = "create_assistant"
    /\ call' = [call EXCEPT ![w].assistant_id = CreatedId(assistants_created + 1),
                            ![w].pc = "cache_open",
                            ![w].hist.net = TRUE]
    /\ UNCHANGED <<pure, entries_table, environ, cache_writes, openai_client, clients_built,
                   assistant_file, assistants_created, responses_dir, runs, started>>

\* Lines 124-138: client.beta.assistants.create.
create_assistant(w, I) ==
    /\ call[w].pc = "create_assistant"
    /\ \/ /\ assistants_created' = assistants_created + 1
          /\ call' = [call EXCEPT ![w].assistant_id = CreatedId(assistants_created + 1),
                                  ![w].pc = "cache_open",
                                  ![w].hist.net = TRUE,
                                  ![w].hist.created = @ + 1]
       \/ /\ "create" \in I.faults
          /\ call' = [call EXCEPT ![w] =
                         Raise([call[w] EXCEPT !.hist.net = TRUE],
                             HTTPException(502, "Failed to prepare assistant."))]
          /\ UNCHANGED assistants_created
    /\ UNCHANGED <<pure, entries_table, environ, cache_writes, openai_client, clients_built, assistant_file,
                   responses_dir, runs, started>>

\* Lines 140-143: ASSISTANT_ID_FILE.write_text opens the file for writing,
\* which creates or truncates it; a failure is swallowed.
cache_open(w, I) ==
    /\ call[w].pc = "cache_open"
    /\ \/ /\ assistant_file' = [exists |-> TRUE, id |-> EmptyId]
          /\ call' = [call EXCEPT ![w].pc = "cache_write"]
       \/ /\ "cache" \in I.faults
          /\ call' = [call EXCEPT ![w].pc = "run"]
          /\ UNCHANGED assistant_file
    /\ UNCHANGED <<pure, entries_table, environ, cache_writes, openai_client, clients_built, assistants_created,
                   responses_dir, runs, started>>

\* Lines 140-144: the identifier written to the open file, then return.
cache_write(w, I) ==
    /\ call[w].pc = "cache_write"
    /\ \/ /\ assistant_file' = [exists |-> TRUE, id |-> call[w].assistant_id]
          /\ cache_writes' = cache_writes \cup
                                 {[id |-> call[w].assistant_id, at |-> started]}
       \/ "cache" \in I.faults /\ UNCHANGED <<assistant_file, cache_writes>>
    /\ call' = [call EXCEPT ![w].pc = "run"]
    /\ UNCHANGED <<pure, entries_table, environ, openai_client, clients_built, assistants_created,
                   responses_dir, runs, started>>

\* Lines 270-275: threads.create and runs.create.
start_run(w, I) ==
    /\ call[w].pc = "run"
    /\ \/ /\ runs' = [runs EXCEPT ![w] = "queued"]
          /\ call' = [call EXCEPT ![w].pc = "poll", ![w].run_status = "queued",
                                  ![w].hist.net = TRUE]
       \/ /\ "run" \in I.faults
          /\ call' = [call EXCEPT ![w] =
                         Raise([call[w] EXCEPT !.hist.net = TRUE],
                             HTTPException(502,
                                 "Failed to contact language model service."))]
          /\ UNCHANGED runs
    /\ UNCHANGED <<pure, entries_table, environ, cache_writes, openai_client, clients_built, assistant_file,
                   assistants_created, responses_dir, started>>

\* The upstream's run: queued, in progress, then one of four final states.
terminal_states == {"completed", "failed", "cancelled", "expired"}

upstream_run(w, I) ==
    /\ \/ /\ runs[w] = "queued"
          /\ runs' = [runs EXCEPT ![w] = "in_progress"]
       \/ /\ runs[w] \in {"queued", "in_progress"}
          /\ \E status \in I.finals : runs' = [runs EXCEPT ![w] = status]
    /\ UNCHANGED <<pure, entries_table, environ, cache_writes, openai_client, clients_built, assistant_file,
                   assistants_created, responses_dir, call, started>>

\* A loop that does not take expired for a final status (sensitivity of C8).
PollStepExpiredPending(c, status) ==
    LET c1 == [c EXCEPT !.run_status = status]
    IN IF status \in terminal_states \ {"expired"}
       THEN IF status # "completed"
            THEN Raise(c1, HTTPException(502,
                     "Assistant run did not complete successfully."))
            ELSE [c1 EXCEPT !.pc = "messages"]
       ELSE c1

\* A loop that leaves on any terminal status and goes on to list the
\* messages without the check of lines 286-290 (sensitivity of C7).
PollStepWithoutStatusCheck(c, status) ==
    LET c1 == [c EXCEPT !.run_status = status]
    IN IF status \in terminal_states THEN [c1 EXCEPT !.pc = "messages"] ELSE c1

\* Lines 278-290: one iteration of the polling loop with the status it
\* retrieved, and the check that follows the loop.
PollStep(c, status) ==
    LET c1 == [c EXCEPT !.run_status = status,
                        !.hist.polled_after_terminal =
                            @ \/ c.run_status \in terminal_states]
    IN IF status \in terminal_states
       THEN IF status # "completed"
            THEN Raise(c1, HTTPException(502,
                     "Assistant run did not complete successfully."))
            ELSE [c1 EXCEPT !.pc = "messages"]
       ELSE c1

poll_run(w, I) ==
    /\ call[w].pc = "poll"
    /\ \/ call' = [call EXCEPT ![w] = PollStep(call[w], runs[w])]
       \/ "poll" \in I.faults /\ call' = [call EXCEPT ![w] =
                      Raise(call[w], HTTPException(502,
                          "Failed to contact language model service."))]
    /\ UNCHANGED <<pure, entries_table, environ, cache_writes, openai_client, clients_built, assistant_file,
                   assistants_created, responses_dir, runs, started>>

\* Lines 299-303: the non-empty text values of one message's content parts.
RECURSIVE TextValues(_)
TextValues(content) ==
    IF Len(content) = 0 THEN <<>>
    ELSE (IF Head(content).type = "text" /\ Len(Head(content).value) > 0
          THEN <<Head(content).value>> ELSE <<>>)
         \o TextValues(Tail(content))

\* Lines 295-305: the loop over messages.data (newest first), left at the
\* first assistant message that gave a text part.
RECURSIVE output_text_parts(_)
output_text_parts(messages) ==
    IF Len(messages) = 0 THEN <<>>
    ELSE IF Head(messages).role # "assistant" THEN output_text_parts(Tail(messages))
    ELSE IF Len(TextValues(Head(messages).content)) > 0
         THEN TextValues(Head(messages).content)
    ELSE output_text_parts(Tail(messages))

\* Lines 307-311: the text handed to _strip_code_fence, or the 502.
output_text(messages) ==
    LET text == Strip(Join(output_text_parts(messages), <<"\n">>))
    IN IF Len(text) = 0
       THEN Raises(HTTPException(502, "Assistant returned empty content."))
       ELSE Returned(text)

\* Lines 292-330: what call_assistants_api makes of the listed messages.
AssistantsResult(reply) ==
    CASE reply.kind = "error" ->
             [ok |-> FALSE,
              exc |-> HTTPException(502, "Failed to contact language model service.")]
      [] reply.kind = "empty" ->
             [ok |-> FALSE,
              exc |-> HTTPException(502, "Assistant returned empty content.")]
      [] reply.kind = "malformed" ->
             [ok |-> FALSE,
              exc |-> HTTPException(502, "Assistant returned malformed JSON.")]
      [] reply.kind = "json" -> [ok |-> TRUE, payload |-> reply.parsed]

MessagesReplies ==
    ErrorReplies \cup
    {[kind |-> "json", parsed |-> CanonPayload],
     [kind |-> "json", parsed |-> LegacyPayload],
     [kind |-> "json", parsed |-> ListPayload]}

MessagesStep(c, reply) ==
    LET c1 == [c EXCEPT !.hist.listed = @ + 1]
        res == AssistantsResult(reply)
    IN IF res.ok THEN OnPayload(c1, res.payload) ELSE Raise(c1, res.exc)

list_messages(w, I) ==
    /\ call[w].pc = "messages"
    /\ \E reply \in I.messages :
           call' = [call EXCEPT ![w] = MessagesStep(call[w], reply)]
    /\ UNCHANGED <<pure, entries_table, environ, cache_writes, openai_client, clients_built, assistant_file,
                   assistants_created, responses_dir, runs, started>>

(***************************************************************************)
(* analysis.py: persist_model_response (audit recorder)                    *)
(***************************************************************************)
\* range(10), line 366.
PERSIST_ATTEMPTS == 10

\* Lines 347-363.
AuditRecord(c) ==
    [model |-> get_model_name, vector_store_id |-> get_vector_store_id,
     question |-> user_question(c.args.question), entries |-> c.args.entries,
     response |-> c.payload, metadata |-> c.meta]

\* A recorder whose I/O errors escape to the caller (sensitivity of C5).
PersistStepRaising(c, how) ==
    CASE how = "written" ->
             [c EXCEPT !.attempts = @ + 1, !.audit = "written", !.pc = "respond"]
      [] how = "failed" ->
             [c EXCEPT !.attempts = @ + 1, !.audit = "aborted", !.pc = "done",
                       !.outcome = Raises(HTTPException(500, "Internal Server Error"))]
      [] how = "exists" ->
             IF c.attempts + 1 < 10
             THEN [c EXCEPT !.attempts = @ + 1]
             ELSE [c EXCEPT !.attempts = @ + 1, !.audit = "gave_up", !.pc = "respond"]

\* A recorder that retries after any failure (sensitivity of C6).
PersistStepRetryingAll(c, how) ==
    CASE how = "written" ->
             [c EXCEPT !.attempts = @ + 1, !.audit = "written", !.pc = "respond"]
      [] how \in {"failed", "exists"} ->
             IF c.attempts + 1 < 10
             THEN [c EXCEPT !.attempts = @ + 1]
             ELSE [c EXCEPT !.attempts = @ + 1, !.audit = "gave_up", !.pc = "respond"]

\* Lines 366-390: one iteration of the loop. how is what open("x") and
\* json.dump did: "exists" (FileExistsError), "written", "failed" (any
\* other exception). audit is how persist_model_response ended.
PersistStep(c, how) ==
    CASE how = "written" ->
             [c EXCEPT !.attempts = @ + 1, !.audit = "written", !.pc = "respond"]
      [] how = "failed" ->
             [c EXCEPT !.attempts = @ + 1, !.audit = "aborted", !.pc = "respond"]
      [] how = "exists" ->
             IF c.attempts + 1 < PERSIST_ATTEMPTS
             THEN [c EXCEPT !.attempts = @ + 1]
             ELSE [c EXCEPT !.attempts = @ + 1, !.audit = "gave_up", !.pc = "respond"]

\* open(filepath, "w"): a file that exists is truncated and written again
\* (sensitivity of C18).
WriteOutcomesOverwriting(dir, n, c, faults) ==
    {[how |-> "written", file |-> [state |-> "complete", by |-> c.id]]}

\* What open(filepath, "x") and json.dump do to the file named n: a file
\* that exists is left alone; otherwise the file is created and holds the
\* whole record, or what was written before json.dump raised; or open
\* raises and creates nothing. The code never reads an audit file: a file
\* is kept as the call that wrote it (by), whose record is AuditRecord of
\* that call.
WriteOutcomes(dir, n, c, faults) ==
    LET failures == IF "persist" \in faults
                    THEN {[how |-> "failed", file |-> dir[n]]} \cup
                         (IF dir[n].state = "absent"
                          THEN {[how |-> "failed",
                                 file |-> [state |-> "partial", by |-> c.id]]}
                          ELSE {})
                    ELSE {}
    IN failures \cup
       (IF dir[n].state # "absent"
        THEN {[how |-> "exists", file |-> dir[n]]}
        ELSE {[how |-> "written", file |-> [state |-> "complete", by |-> c.id]]})

Tally(c, how) ==
    CASE how = "exists" -> [c EXCEPT !.hist.exists = @ + 1]
      [] how = "written" -> [c EXCEPT !.hist.written = @ + 1]
      [] how = "failed" -> [c EXCEPT !.hist.aborted = @ + 1]

\* The names a generated filename can stand for. Names carry no meaning
\* beyond being taken or free, so one taken and one free name stand for all
\* of them: the lowest of each.
Lowest(S) == {n \in S : \A m \in S : n <= m}
GeneratedNames(dir) ==
    Lowest({n \in Names : dir[n].state = "absent"}) \cup
    Lowest({n \in Names : dir[n].state # "absent"})

persist_model_response(w, I) ==
    /\ call[w].pc = "persist"
    /\ \E n \in GeneratedNames(responses_dir) :
           \E out \in WriteOutcomes(responses_dir, n, call[w], I.faults) :
               /\ responses_dir' = [responses_dir EXCEPT ![n] = out.file]
               /\ call' = [call EXCEPT ![w] =
                              Tally(PersistStep(call[w], out.how), out.how)]
    /\ UNCHANGED <<pure, entries_table, environ, cache_writes, openai_client, clients_built, assistant_file,
                   assistants_created, runs, started>>

(***************************************************************************)
(* analysis.py: request_analysis, the result                               *)
(***************************************************************************)
\* Lines 470-477.
payload_with_disclaimer(payload) ==
    PyDict(<<
        KV("maternal_feedback",
           DictGet(payload, "maternal_feedback",
                   DictGet(payload, "observations", PyList(<<>>)))),
        KV("child_development_insights",
           DictGet(payload, "child_development_insights",
                   DictGet(payload, "observations", PyList(<<>>)))),
        KV("parenting_guidelines",
           DictGet(payload, "parenting_guidelines",
                   DictGet(payload, "advice", PyList(<<>>)))),
        KV("sources",
           DictGet(payload, "sources", DictGet(payload, "citations", PyList(<<>>)))),
        KV("disclaimer", DictGet(payload, "disclaimer", PyStr(DISCLAIMER)))>>)

\* Lines 470-490: payload.get on a payload that is no dict raises
\* AttributeError, which the handler of line 484 takes.
RespondStep(c) ==
    IF c.payload.t # "dict"
    THEN OnException(c)
    ELSE [c EXCEPT !.pc = "done",
                   !.outcome = Returned(normalize_analysis_payload(
                                   payload_with_disclaimer(c.payload)))]

respond(w) ==
    /\ call[w].pc = "respond"
    /\ call' = [call EXCEPT ![w] = RespondStep(call[w])]
    /\ UNCHANGED <<pure, entries_table, environ, cache_writes, openai_client, clients_built, assistant_file,
                   assistants_created, responses_dir, runs, started>>

\* The caller takes the outcome; the worker is free for the next request.
complete(w) ==
    /\ call[w].pc = "done"
    /\ call' = [call EXCEPT ![w] = IdleCall]
    /\ runs' = [runs EXCEPT ![w] = "none"]
    /\ UNCHANGED <<pure, entries_table, environ, cache_writes, openai_client, clients_built, assistant_file,
                   assistants_created, responses_dir, started>>

(***************************************************************************)
(* tasks.py: generate_entry_analysis                                       *)
(***************************************************************************)
\* Lines 28-39: the arguments of the task's call of request_analysis.
TaskArgs(entry_id, use_web_search) ==
    [entries |-> <<entry_id>>, question |-> PyStr(<<"(SINGLE_ENTRY_QUESTION)">>),
     use_web_search |-> use_web_search, raise_on_failure |-> FALSE,
     metadata |-> PyDict(<<KV("type", PyStr(<<"single_entry_async">>)),
                           KV("entry_id", PyNum(entry_id)),
                           KV("created_at", PyStr(<<"(created_at)">>)),
                           KV("user_web_search_override", use_web_search)>>)]

\* The task storing the empty analysis whatever request_analysis returned
\* (sensitivity of C30).
TaskAnalysisDiscardingResult(outcome) == AnalysisDict(EmptyAnalysis)

\* Lines 40-50: the analysis the task hands to persist_entry_analysis, for
\* a call of request_analysis that raised or returned: _empty_analysis()
\* after an exception or a falsy result.
TaskAnalysis(outcome) ==
    IF outcome.kind = "raise" THEN AnalysisDict(EmptyAnalysis)
    ELSE IF ~Truthy(AnalysisDict(outcome.value)) THEN AnalysisDict(EmptyAnalysis)
    ELSE AnalysisDict(outcome.value)

\* Lines 22-39: fetch_entry, the return for an entry without row, and the
\* start of request_analysis otherwise. task.before is the table as the task
\* found it (history).
generate_entry_analysis(w, I) ==
    /\ \/ call[w].pc = "idle"
       \/ call[w].pc = "done" /\ call[w].task.pc = "returned"
    /\ started < I.calls
    /\ \E entry_id \in EntryIds, use_web_search \in WebSearchInputs :
          LET task == [pc |-> "requested", entry_id |-> entry_id,
                       before |-> entries_table]
          IN call' = [call EXCEPT ![w] =
                 IF ~entries_table[entry_id].exists
                 THEN [IdleCall EXCEPT !.task = [task EXCEPT !.pc = "returned"]]
                 ELSE [Begin(TaskArgs(entry_id, use_web_search), environ, started + 1)
                          EXCEPT !.task = task]]
    /\ started' = started + 1
    /\ runs' = [runs EXCEPT ![w] = "none"]
    /\ UNCHANGED <<pure, entries_table, environ, cache_writes, openai_client,
                   clients_built, assistant_file, assistants_created, responses_dir>>

\* Lines 40-50 with persist_entry_analysis (db.py lines 212-226), once
\* request_analysis is done: normalize, json.dumps and
\* UPDATE entries SET analysis_json = ? WHERE id = ?
persist_entry_analysis(w) ==
    /\ call[w].pc = "done"
    /\ call[w].task.pc = "requested"
    /\ entries_table' =
          IF entries_table[call[w].task.entry_id].exists
          THEN [entries_table EXCEPT ![call[w].task.entry_id].analysis_json =
                   Append(@, normalize_analysis_payload(TaskAnalysis(call[w].outcome)))]
          ELSE entries_table
    /\ call' = [call EXCEPT ![w].task.pc = "returned"]
    /\ UNCHANGED <<pure, environ, cache_writes, openai_client, clients_built,
                   assistant_file, assistants_created, responses_dir, runs, started>>

(***************************************************************************)
(* Specifications                                                          *)
(***************************************************************************)
\* The inputs of a specification: the calls started, the arguments callers
\* pass, what the upstream answers, the final states its runs reach, and
\* the operations that can fail (reading and writing the cache file,
\* creating a profile, starting and polling a run, writing an audit file).
AllFaults == {"read", "cache", "create", "run", "poll", "persist"}

SeqInputs ==
    [calls |-> SeqCalls, args |-> ArgsInputs,
     responses |-> ResponsesReplies, messages |-> MessagesReplies,
     finals |-> terminal_states, faults |-> AllFaults]

Step(w, I) ==
    \/ request_analysis(w, I)
    \/ get_openai_client(w)
    \/ build_openai_client(w)
    \/ validate_openai_client(w)
    \/ call_responses_api(w, I)
    \/ get_or_create_assistant_id(w, I)
    \/ create_assistant(w, I)
    \/ cache_open(w, I)
    \/ cache_write(w, I)
    \/ start_run(w, I)
    \/ upstream_run(w, I)
    \/ poll_run(w, I)
    \/ list_messages(w, I)
    \/ persist_model_response(w, I)
    \/ respond(w)
    \/ complete(w)

\* One request at a time.
Next == Step("w1", SeqInputs)
Spec == Init /\ [][Next]_vars

\* As many requests as there are worker threads, served concurrently or one
\* after the other in a process that has not served a request yet: the
\* callers pass entries and choose the protocol, the upstream answers or
\* fails, its runs complete, and a write of the cache file can fail.
ConcArgs ==
    [entries : {<<1>>}, question : {PyNone},
     use_web_search : {PyBool(TRUE), PyBool(FALSE)},
     raise_on_failure : {TRUE}, metadata : {PyNone}]

ConcInputs ==
    [calls |-> Cardinality(Workers), args |-> ConcArgs,
     responses |-> {[kind |-> "error"],
                    [kind |-> "json", parsed |-> CanonPayload, annotations |-> <<>>]},
     messages |-> {[kind |-> "json", parsed |-> CanonPayload]},
     finals |-> {"completed"}, faults |-> {"cache", "read"}]

ConcInit ==
    /\ Init
    /\ environ.api_key /\ environ.sdk = "ok" /\ ~environ.web_flag.set
    /\ assistant_file \in {[exists |-> FALSE], [exists |-> TRUE, id |-> EarlierId]}
    /\ responses_dir = [n \in Names |-> AbsentFile]

ConcNext == \E w \in Workers : Step(w, ConcInputs)
ConcSpec == ConcInit /\ [][ConcNext]_vars

\* Requests that reach the polling loop, directly or after the failure of
\* call_responses_api, while the upstream's run goes its own way: it may
\* stay queued or in progress for ever. The thread serving the request keeps
\* running: an iteration of the loop (time.sleep, then retrieve) and the
\* listing of messages are taken when they stay possible. Nothing obliges
\* the upstream to move or a request to fail in transport.
LiveArgs ==
    [entries : {<<1>>}, question : {PyNone},
     use_web_search : {PyBool(TRUE), PyBool(FALSE)},
     raise_on_failure : BOOLEAN, metadata : {PyNone}]

LiveInputs ==
    [calls |-> SeqCalls, args |-> LiveArgs,
     responses |-> {[kind |-> "error"]}, messages |-> MessagesReplies,
     finals |-> terminal_states, faults |-> {"poll"}]

NoFaults(I) == [I EXCEPT !.faults = {}]

LiveNext == Step("w1", LiveInputs)

LiveSpec ==
    /\ Init
    /\ [][LiveNext]_vars
    /\ WF_vars(poll_run("w1", NoFaults(LiveInputs)))
    /\ WF_vars(list_messages("w1", LiveInputs))

\* The same requests in a process that finds no cache file and has no
\* OPENAI_ASSISTANT_ID.
EmptyCacheInit ==
    /\ ConcInit
    /\ ~environ.assistant_id
    /\ assistant_file = [exists |-> FALSE]
EmptyCacheSpec == EmptyCacheInit /\ [][ConcNext]_vars

\* Concurrent requests whose audit records go to the same RESPONSES_DIR,
\* which may hold files of earlier processes; a generated name can collide
\* with an existing file, and open or json.dump can fail.
AuditInputs == [ConcInputs EXCEPT !.faults = {"persist"}]

AuditInit ==
    /\ Init
    /\ environ = DefaultEnv
    /\ assistant_file = [exists |-> FALSE]

AuditNext == \E w \in Workers : Step(w, AuditInputs)
AuditSpec == AuditInit /\ [][AuditNext]_vars

\* Background tasks, one after the other, for entries with and without a
\* row: each calls request_analysis with the task's arguments, under every
\* environment, reply and fault of the sequential requests.
TaskNext ==
    \/ generate_entry_analysis("w1", SeqInputs)
    \/ get_openai_client("w1")
    \/ build_openai_client("w1")
    \/ validate_openai_client("w1")
    \/ call_responses_api("w1", SeqInputs)
    \/ get_or_create_assistant_id("w1", SeqInputs)
    \/ create_assistant("w1", SeqInputs)
    \/ cache_open("w1", SeqInputs)
    \/ cache_write("w1", SeqInputs)
    \/ start_run("w1", SeqInputs)
    \/ upstream_run("w1", SeqInputs)
    \/ poll_run("w1", SeqInputs)
    \/ list_messages("w1", SeqInputs)
    \/ persist_model_response("w1", SeqInputs)
    \/ respond("w1")
    \/ persist_entry_analysis("w1")
TaskSpec == Init /\ [][TaskNext]_vars

(***************************************************************************)
(* The functions of the module applied on their own                        *)
(***************************************************************************)
\* Texts over a backtick, a newline (which is whitespace) and a letter.
FenceAlphabet == {Backtick, "\n", "x"}
FenceInputs(len) == UNION {[1..n -> FenceAlphabet] : n \in 0..len}

\* The keys normalize_analysis_payload reads, canonical and legacy.
NormalizerKeys ==
    <<"maternal_feedback", "observations", "child_development_insights",
      "evidence", "parenting_guidelines", "advice", "sources", "citations",
      "disclaimer">>

\* Values a decoded payload can hold under a key: the expected shapes and
\* wrong ones (null, scalars, dicts, nested lists, blank strings).
KeyValues(key) ==
    CASE key \in {"maternal_feedback", "observations", "child_development_insights"} ->
            {PyNone, PyStr(<<"m">>), PyStr(<<" ">>), PyNum(7), PyList(<<>>),
             PyList(<<PyStr(<<" ", "n">>), PyNone, PyList(<<PyStr(<<"o">>)>>)>>)}
      [] key = "evidence" ->
            {PyStr(<<"e">>),
             PyList(<<PyDict(<<KV("summary", PyStr(<<"s">>))>>),
                      PyDict(<<KV("quote", PyStr(<<"q">>))>>), PyNum(0)>>)}
      [] key \in {"parenting_guidelines", "advice"} ->
            {PyStr(<<"g", " ", "(", "s", ")">>),
             PyStr(<<"g", ".", " ", "(", "a", " ", "(", "b", ")", ")">>),
             PyStr(<<"g", " ", "(", "a", ")", " ", "(", "b", ")">>),
             PyStr(<<"g", " ", "(", ")">>),
             PyStr(<<"g", ")">>),
             PyStr(<<"g", ")", " ", "(", "s", ")", ")">>),
             PyStr(<<"(", "s", ")">>),
             PyStr(<<"h">>),
             PyStr(<<"g", ";", " ", "(", " ", "s", ")", "\n", "\n", "h", " ", "(", "t", ")", " ">>),
             PyList(<<PyStr(<<"g", "(", "s", ")">>), PyStr(<<"h", ",", "(", "s", ")">>),
                      PyNone>>),
             PyNum(7)}
      [] key \in {"sources", "citations"} ->
            {PyStr(<<"s">>),
             PyNum(7),
             PyList(<<PyDict(<<KV("text", PyStr(<<" ", "s">>))>>), PyStr(<<" ">>)>>),
             PyList(<<PyDict(<<KV("url", PyStr(<<"u">>))>>),
                      PyDict(<<KV("url", PyStr(<<"u">>))>>)>>),
             PyList(<<PyStr(<<"t">>), PyDict(<<KV("text", PyStr(<<"t">>))>>)>>)}
      [] key = "disclaimer" ->
            {PyNone, PyStr(<<>>), PyStr(<<"d">>), PyNum(0), PyList(<<>>),
             PyList(<<PyStr(<<"a">>), PyStr(<<"b">>)>>),
             PyList(<<PyStr(<<>>), PyNone>>),
             PyList(<<PyStr(<<"a">>), PyStr(<<>>), PyNum(2)>>)}

\* The key/value pairs of the dicts that hold at most n of the keys.
RECURSIVE DictsOver(_, _)
DictsOver(keys, n) ==
    IF Len(keys) = 0 \/ n = 0 THEN {<<>>}
    ELSE DictsOver(Tail(keys), n)
         \cup {<<KV(Head(keys), v)>> \o kv :
                  v \in KeyValues(Head(keys)), kv \in DictsOver(Tail(keys), n - 1)}

NormalizerInputs(keys) ==
    {PyNone, PyStr(<<"x">>), PyStr(<<>>), PyNum(7), PyBool(FALSE),
     PyList(<<PyStr(<<"x">>), PyNone>>)}
    \cup {PyDict(kv) : kv \in DictsOver(NormalizerKeys, keys)}

\* Threads as messages.list returns them, newest message first: messages
\* of the assistant and of the user, with text parts (empty, blank or not)
\* and parts that are no text.
TextPart(value) == [type |-> "text", value |-> value]
MessageInputs(n) ==
    LET contents == {<<>>, <<TextPart(<<"a">>)>>, <<TextPart(<<>>)>>,
                     <<TextPart(<<" ">>)>>, <<[type |-> "image_file"]>>,
                     <<TextPart(<<"b">>), TextPart(<<"c">>)>>}
        messages == [role : {"assistant", "user"}, content : contents]
    IN UNION {[1..k -> messages] : k \in 0..n}

PureInputs(len, keys, n) ==
    {[fn |-> "_strip_code_fence", x |-> text] : text \in FenceInputs(len)}
    \cup {[fn |-> "normalize_analysis_payload", x |-> data] :
             data \in NormalizerInputs(keys)}
    \cup {[fn |-> "output_text", x |-> messages] :
             messages \in MessageInputs(n)}

PureInit ==
    /\ fn_arg \in PureInputs(MaxFenceLen, MaxKeys, MaxMessages)
    /\ fn_ret = NotReturned
    /\ environ = DefaultEnv
    /\ clients_built = 0
    /\ openai_client = 0
    /\ assistant_file = [exists |-> FALSE]
    /\ assistants_created = 0
    /\ cache_writes = {}
    /\ responses_dir = [n \in Names |-> AbsentFile]
    /\ runs = [w \in Workers |-> "none"]
    /\ call = [w \in Workers |-> IdleCall]
    /\ started = 0
    /\ entries_table = StoredEntries

apply_strip_code_fence ==
    /\ fn_arg.fn = "_strip_code_fence"
    /\ ~fn_ret.done
    /\ fn_ret' = ReturnedValue(strip_code_fence(fn_arg.x))
    /\ UNCHANGED <<fn_arg, entries_table, environ, openai_client, clients_built, assistant_file,
                   assistants_created, cache_writes, responses_dir, runs, call,
                   started>>

apply_normalize_analysis_payload ==
    /\ fn_arg.fn = "normalize_analysis_payload"
    /\ ~fn_ret.done
    /\ fn_ret' = ReturnedValue(normalize_analysis_payload(fn_arg.x))
    /\ UNCHANGED <<fn_arg, entries_table, environ, openai_client, clients_built, assistant_file,
                   assistants_created, cache_writes, responses_dir, runs, call,
                   started>>

apply_output_text ==
    /\ fn_arg.fn = "output_text"
    /\ ~fn_ret.done
    /\ fn_ret' = ReturnedValue(output_text(fn_arg.x))
    /\ UNCHANGED <<fn_arg, entries_table, environ, openai_client, clients_built, assistant_file,
                   assistants_created, cache_writes, responses_dir, runs, call,
                   started>>

PureNext ==
    \/ apply_strip_code_fence
    \/ apply_normalize_analysis_payload
    \/ apply_output_text

PureSpec == PureInit /\ [][PureNext]_vars

(***************************************************************************)
(* Properties                                                              *)
(***************************************************************************)
\* The files of RESPONSES_DIR that activation c created.
FilesBy(c) ==
    {n \in Names : responses_dir[n].state \in {"complete", "partial"}
                   /\ responses_dir[n].by = c.id}

\* C1: a call of request_analysis with an empty entries list returns the
\* canonical empty result (four empty lists and the default disclaimer)
\* whatever its other arguments are, and in that call no protocol client is
\* invoked, get_openai_client is not called, nothing is sent upstream and no
\* audit file is written or attempted.
C1_EmptyEntries ==
    \A w \in Workers :
        LET c == call[w]
        IN (c.pc # "idle" /\ Len(c.args.entries) = 0) =>
              /\ c.pc = "done"
              /\ c.outcome = [kind |-> "return",
                              value |-> [maternal_feedback |-> <<>>,
                                         child_development_insights |-> <<>>,
                                         parenting_guidelines |-> <<>>,
                                         sources |-> <<>>,
                                         disclaimer |-> DISCLAIMER]]
              /\ c.hist.A = 0 /\ c.hist.B = 0 /\ c.hist.inits = 0
              /\ ~c.hist.net /\ c.hist.created = 0 /\ c.hist.listed = 0
              /\ c.client = 0
              /\ c.attempts = 0 /\ c.audit = "none" /\ FilesBy(c) = {}

C1_Witness ==
    \E w \in Workers :
        /\ call[w].pc = "done"
        /\ Len(call[w].args.entries) = 0
        /\ call[w].args.question # PyNone
        /\ call[w].args.use_web_search = PyBool(TRUE)
        /\ ~call[w].args.raise_on_failure
        /\ call[w].args.metadata # PyNone
        /\ call[w].outcome.kind = "return"

\* C2: in one call of request_analysis each protocol client is invoked at
\* most once; when call_responses_api has failed, call_assistants_api has
\* been invoked exactly once, and when call_responses_api returned a payload
\* call_assistants_api is not invoked at all.
C2_FallbackOnce ==
    \A w \in Workers :
        LET h == call[w].hist
        IN /\ h.A <= 1 /\ h.B <= 1
           /\ "A" \in h.failed => (h.A = 1 /\ h.B = 1)
           /\ h.returned = "A" => h.B = 0

C2_Witness ==
    \E w \in Workers :
        /\ call[w].pc = "done"
        /\ call[w].hist.failed = {"A", "B"}
        /\ call[w].hist.A = 1 /\ call[w].hist.B = 1
        /\ call[w].args.raise_on_failure

\* C3: a call with entries that ended without any protocol client having
\* returned a payload ended in the failure of call_assistants_api; with
\* raise_on_failure it raises that client's exception unchanged, without it
\* it returns the canonical empty result.
C3_NoPayload ==
    \A w \in Workers :
        LET c == call[w]
        IN (c.pc = "done" /\ Len(c.args.entries) > 0 /\ c.hist.returned = "none") =>
              /\ "B" \in c.hist.failed
              /\ c.hist.last_exc.status \in {500, 502}
              /\ IF c.args.raise_on_failure
                 THEN c.outcome = [kind |-> "raise", exc |-> c.hist.last_exc]
                 ELSE c.outcome = [kind |-> "return", value |-> EmptyAnalysis]

C3_Witness ==
    \E w \in Workers :
        /\ call[w].pc = "done"
        /\ call[w].hist.failed = {"A", "B"}
        /\ call[w].hist.returned = "none"
        /\ ~call[w].args.raise_on_failure
        /\ call[w].outcome = Returned(EmptyAnalysis)

\* The values of REPORT_ENABLE_WEB_SEARCH that switch web search on: unset
\* (the default is "true") or, trimmed and lower-cased, one of 1, true, yes,
\* on.
FlagOn(flag) == ~flag.set \/ flag.s = <<" ", "O", "n", "\n">>

\* C4: for a call with entries, call_responses_api is the first protocol
\* client invoked exactly when the effective web-search setting is true:
\* the caller's use_web_search when it is not None, the flag otherwise; with
\* use_web_search = False call_responses_api is never invoked, flag on or
\* off, and call_assistants_api is the first.
C4_FirstProtocol ==
    \A w \in Workers :
        LET c == call[w]
            override == c.args.use_web_search
            effective == IF override = PyNone THEN FlagOn(environ.web_flag)
                         ELSE override = PyBool(TRUE)
        IN (c.pc # "idle" /\ Len(c.args.entries) > 0) =>
              /\ c.hist.first \in {"A", "B"}
              /\ c.hist.first = "A" <=> effective
              /\ override = PyBool(FALSE) => (c.hist.A = 0 /\ c.hist.first = "B")

C4_Witness ==
    \E w \in Workers :
        /\ call[w].pc = "done"
        /\ Len(call[w].args.entries) > 0
        /\ call[w].args.use_web_search = PyBool(FALSE)
        /\ environ.web_flag = [set |-> TRUE, s |-> <<" ", "O", "n", "\n">>]
        /\ call[w].hist.first = "B" /\ call[w].hist.A = 0

\* C5: a call whose audit write failed (ten collisions, or an I/O or
\* serialisation error) ends as the payload alone determines, exactly as it
\* does when the write succeeds: a dict payload is returned normalized, and
\* nothing is raised on account of the audit step.
C5_AuditFailureHidden ==
    \A w \in Workers :
        LET c == call[w]
        IN (c.pc = "done" /\ c.audit \in {"gave_up", "aborted"}) =>
              /\ c.outcome = RespondStep([c EXCEPT !.audit = "written"]).outcome
              /\ c.payload.t = "dict" =>
                     c.outcome = [kind |-> "return",
                                  value |-> normalize_analysis_payload(
                                                payload_with_disclaimer(c.payload))]

C5_Witness ==
    \E w \in Workers :
        /\ call[w].pc = "done"
        /\ call[w].audit = "aborted"
        /\ call[w].hist.aborted = 1
        /\ call[w].outcome.kind = "return"
        /\ call[w].outcome.value.maternal_feedback # <<>>

\* C6: persist_model_response attempts at most 10 writes for one record; it
\* goes on to another attempt only after a collision and while fewer than
\* 10 attempts were made; the first successful write and any other failure
\* end the attempts at once, and the 10th collision ends them with the
\* error logged.
C6_BoundedAttempts ==
    \A w \in Workers :
        LET c == call[w]
            h == c.hist
            total == h.exists + h.written + h.aborted
        IN /\ total <= 10
           /\ h.written + h.aborted <= 1
           /\ c.pc = "persist" => (h.written + h.aborted = 0 /\ h.exists < 10)
           /\ h.written = 1 => (c.audit = "written" /\ c.pc \in {"respond", "done"})
           /\ h.aborted = 1 => (c.audit = "aborted" /\ c.pc \in {"respond", "done"})
           /\ (h.exists = 10) <=> (c.audit = "gave_up")
           /\ c.audit = "gave_up" => c.pc \in {"respond", "done"}
           /\ Cardinality(FilesBy(c)) <= 1

C6_Witness ==
    \E w \in Workers :
        /\ call[w].hist.exists = 10
        /\ call[w].audit = "gave_up"
        /\ call[w].pc = "done"

\* C7: call_assistants_api lists the messages only when the last status it
\* retrieved is completed; once it has retrieved failed, cancelled or
\* expired it has raised HTTP 502 "Assistant run did not complete
\* successfully." without listing messages and without another poll, which
\* request_analysis raises or turns into the empty result.
C7_ListOnlyCompleted ==
    \A w \in Workers :
        LET c == call[w]
        IN /\ (c.pc = "messages" \/ c.hist.listed > 0) => c.run_status = "completed"
           /\ c.hist.listed <= 1
           /\ c.run_status \in {"failed", "cancelled", "expired"} =>
                  /\ c.pc = "done"
                  /\ c.hist.listed = 0
                  /\ ~c.hist.polled_after_terminal
                  /\ c.hist.last_exc =
                         [status |-> 502,
                          detail |-> "Assistant run did not complete successfully."]
                  /\ c.outcome = IF c.args.raise_on_failure
                                 THEN Raises(c.hist.last_exc)
                                 ELSE Returned(EmptyAnalysis)

C7_Witness ==
    \E w \in Workers :
        /\ call[w].run_status = "expired"
        /\ call[w].pc = "done"
        /\ call[w].hist.listed = 0
        /\ call[w].outcome.kind = "raise"
        /\ call[w].outcome.exc.status = 502

\* C8: the polling loop of call_assistants_api is left only with a
\* retrieved status that is completed, failed, cancelled or expired, or by a
\* transport error: while the status retrieved is any other the call stays
\* in the loop, for ever when the run never gets to one of the four. Once
\* the upstream's run is in one of the four states the call leaves the loop
\* and call_assistants_api ends, with a payload or an exception.
C8_Polling ==
    /\ \A w \in Workers :
           (call[w].pc = "poll" /\ runs[w] \in terminal_states)
               ~> (call[w].pc \notin {"poll", "messages"})
    /\ [][\A w \in Workers :
              (call[w].pc = "poll" /\ call'[w].pc # "poll") =>
                  \/ /\ runs[w] \in {"completed", "failed", "cancelled", "expired"}
                     /\ call'[w].run_status = runs[w]
                  \/ /\ "B" \in call'[w].hist.failed
                     /\ call'[w].hist.last_exc.detail =
                            "Failed to contact language model service."]_vars
    /\ [][\A w \in Workers :
              (call[w].pc = "poll" /\ call'[w].pc = "poll" /\ runs'[w] = runs[w]) =>
                  \/ runs[w] \notin terminal_states
                  \/ call'[w] = call[w]]_vars

C8_Witness ==
    \E w \in Workers :
        /\ call[w].pc = "poll"
        /\ call[w].run_status = "in_progress"
        /\ runs[w] = "cancelled"
        /\ call[w].hist.failed = {"A"}

\* The step in which activation w creates a profile, and its read of the
\* cache file.
Creates(w) == call'[w].hist.created > call[w].hist.created
Resolved(c) == c.hist.seen.kind # "unread"
CachedIdentifier == assistant_file.exists /\ assistant_file.id # EmptyId

\* C9 as claimed: a profile is created only when OPENAI_ASSISTANT_ID is not
\* set and the cache file holds no non-empty identifier; the override is
\* returned whatever the cache holds; and once a creation has written its
\* identifier to the cache file, every call started later without override
\* returns that identifier and creates no profile.
C9_CreateOnlyWithoutCache ==
    /\ [][\A w \in Workers :
              Creates(w) => (~environ.assistant_id /\ ~CachedIdentifier)]_vars
    /\ [](\A w \in Workers :
              (environ.assistant_id /\ Resolved(call[w])) =>
                  (call[w].assistant_id = EnvId /\ call[w].hist.created = 0))
    /\ [](\A w \in Workers : \A written \in cache_writes :
              (~environ.assistant_id /\ call[w].id > written.at
                                     /\ Resolved(call[w])) =>
                  /\ call[w].assistant_id = written.id
                  /\ call[w].hist.created = 0)

\* C9, amended: a profile is created only when OPENAI_ASSISTANT_ID is not
\* set and the call's own read of the cache file gave no identifier (the
\* file was absent, empty, or the read failed); the override is returned
\* whatever the cache holds; a call without override whose read finds a
\* non-empty identifier returns the identifier in the file at that moment
\* and creates no profile; and an identifier in the file that a creation of
\* this process made is one that a creation wrote there.
C9_CreateOnlyWithoutCacheRead ==
    /\ [][\A w \in Workers :
              Creates(w) =>
                  /\ ~environ.assistant_id
                  /\ call[w].hist.seen.kind \in {"absent", "empty", "unreadable"}]_vars
    /\ [](\A w \in Workers :
              (environ.assistant_id /\ Resolved(call[w])) =>
                  (call[w].assistant_id = EnvId /\ call[w].hist.created = 0))
    /\ [][\A w \in Workers :
              (~environ.assistant_id /\ ~Resolved(call[w]) /\ Resolved(call'[w])
                   /\ call'[w].hist.seen.kind = "id") =>
                  /\ CachedIdentifier
                  /\ call'[w].assistant_id = assistant_file.id
                  /\ call'[w].pc = "run"]_vars
    /\ [](\A w \in Workers :
              (~environ.assistant_id /\ call[w].hist.seen.kind = "id") =>
                  /\ call[w].assistant_id = call[w].hist.seen.id
                  /\ call[w].hist.created = 0
                  /\ call[w].pc # "create_assistant")
    /\ [](CachedIdentifier /\ assistant_file.id.src = "created" =>
              \E written \in cache_writes : written.id = assistant_file.id)

C9_Witness ==
    \E v, w \in Workers :
        /\ ~environ.assistant_id
        /\ call[v].id = 1 /\ call[v].hist.created = 1 /\ call[v].pc = "done"
        /\ [id |-> CreatedId(1), at |-> 1] \in cache_writes
        /\ call[w].id = 2
        /\ call[w].hist.seen = [kind |-> "id", id |-> CreatedId(1)]
        /\ call[w].assistant_id = CreatedId(1)
        /\ call[w].hist.created = 0
        /\ call[w].pc = "done"

\* C10: whatever the interleaving of concurrent calls of get_openai_client,
\* OpenAI(...) is constructed at most once in the process and all callers
\* hold the same handle.
C10_ClientBuiltOnce ==
    /\ clients_built <= 1
    /\ \A v, w \in Workers :
           (call[v].client # 0 /\ call[w].client # 0) =>
               call[v].client = call[w].client

\* C11: _strip_code_fence applied to its own result returns that result,
\* for every text.
C11_FenceStripIdempotent ==
    (fn_arg.fn = "_strip_code_fence" /\ fn_ret.done) =>
        strip_code_fence(fn_ret.value) = fn_ret.value

\* A sequence of characters (a Python str) / a list of them.
IsStr(s) == s \in Seq(STRING)
IsStrList(l) == \A i \in 1..Len(l) : IsStr(l[i])
Normalized == fn_arg.fn = "normalize_analysis_payload" /\ fn_ret.done

\* C12: normalize_analysis_payload returns, for every input, a dict with
\* exactly the five canonical keys: three lists of strings, a list of dicts
\* and a string; None gives the canonical empty result and any other
\* non-dict value gives its string form as the only maternal_feedback entry.
C12_NormalizerTotal ==
    Normalized =>
        LET data == fn_arg.x
            r == fn_ret.value
        IN /\ DOMAIN r = {"maternal_feedback", "child_development_insights",
                          "parenting_guidelines", "sources", "disclaimer"}
           /\ IsStrList(r.maternal_feedback)
           /\ IsStrList(r.child_development_insights)
           /\ IsStrList(r.parenting_guidelines)
           /\ \A i \in 1..Len(r.sources) : r.sources[i].t = "dict"
           /\ IsStr(r.disclaimer)
           /\ data.t # "dict" =>
                 /\ r.maternal_feedback =
                        (IF data.t = "null" THEN <<>> ELSE <<str(data)>>)
                 /\ r.child_development_insights = <<>>
                 /\ r.parenting_guidelines = <<>>
                 /\ r.sources = <<>>
                 /\ r.disclaimer = DISCLAIMER

\* A dict whose sources value is a number and whose maternal_feedback holds
\* a null and a nested list has been normalized.
C12_Witness ==
    /\ Normalized
    /\ fn_arg.x.t = "dict"
    /\ DictGet(fn_arg.x, "sources", PyNone) = PyNum(7)
    /\ DictGet(fn_arg.x, "maternal_feedback", PyNone).t = "list"
    /\ fn_ret.value.sources = <<PyDict(<<KV("text", PyStr(<<"7">>))>>)>>
    /\ fn_ret.value.maternal_feedback = <<<<"n">>, <<"[", "'", "o", "'", "]">>>>

\* C13: the disclaimer of every result of normalize_analysis_payload is a
\* non-empty string; a null, absent or empty-string disclaimer, an empty list
\* and a list without a non-empty item give DISCLAIMER, and a list of
\* non-empty items gives the items joined by single spaces.
C13_DisclaimerNonEmpty ==
    Normalized =>
        LET data == fn_arg.x
            value == IF data.t = "dict" THEN DictGet(data, "disclaimer", PyNone)
                     ELSE PyNone
            r == fn_ret.value
        IN /\ Len(r.disclaimer) > 0
           /\ value \in {PyNone, PyStr(<<>>), PyList(<<>>),
                          PyList(<<PyStr(<<>>), PyNone>>)}
                 => r.disclaimer = DISCLAIMER
           /\ value = PyList(<<PyStr(<<"a">>), PyStr(<<"b">>)>>)
                 => r.disclaimer = <<"a", " ", "b">>

\* The sources of the payload before the guideline lines are read.
GivenSources(data) ==
    normalize_dict_items(normalize_analysis_list(
        DictGet(data, "sources", DictGet(data, "citations", PyNone))))

\* C14: a guideline line that ends with a balanced parenthetical group
\* (nested parentheses allowed) is output as the text before the group
\* without trailing spaces, semicolons, commas and periods, and the inner
\* text of the group becomes a new source unless it is a known source text;
\* any other line is output unchanged and adds no source.  Stated for a
\* payload with a one-line guideline, a non-empty text before the group and
\* a non-empty inner text.
C14_TrailingParenthetical ==
    (/\ Normalized
     /\ fn_arg.x.t = "dict"
     /\ HasKey(fn_arg.x, "parenting_guidelines")
     /\ DictGet(fn_arg.x, "parenting_guidelines", PyNone).t = "str") =>
        LET data == fn_arg.x
            r == fn_ret.value
            line == Strip(DictGet(data, "parenting_guidelines", PyNone).s)
            group == extract_trailing_parenthetical(line)
            inner == Strip(SubSeq(group.parenthetical, 2,
                                  Len(group.parenthetical) - 1))
            before == Strip(RStripChars(group.preceding, {" ", ";", ",", "."}))
            given == GivenSources(data)
        IN /\ "\n" \notin {line[i] : i \in 1..Len(line)}
           /\ group.found => Len(inner) > 0 /\ Len(before) > 0
           => IF group.found
              THEN /\ r.parenting_guidelines = <<before>>
                   /\ r.sources =
                         (IF inner \in SourceTexts(given) THEN given
                          ELSE Append(given, PyDict(<<KV("text", PyStr(inner))>>)))
              ELSE /\ r.parenting_guidelines = <<line>>
                   /\ r.sources = given

\* The payload with every legacy key replaced by its canonical key, unless
\* the canonical key is present.  observations stands for
\* child_development_insights whenever it is present (always), or only
\* when it yields a non-empty list.
LegacyAsCanonical(data, always) ==
    LET Pick(canonical, legacy) ==
            IF HasKey(data, canonical)
            THEN <<KV(canonical, DictGet(data, canonical, PyNone))>>
            ELSE IF HasKey(data, legacy)
            THEN <<KV(canonical, DictGet(data, legacy, PyNone))>>
            ELSE <<>>
        Keep(key) == Pick(key, key)
        observations == normalize_analysis_list(DictGet(data, "observations", PyNone))
    IN PyDict(Pick("maternal_feedback", "observations")
              \o (IF always \/ Len(observations) > 0
                     \/ HasKey(data, "child_development_insights")
                  THEN Pick("child_development_insights", "observations")
                  ELSE Keep("evidence"))
              \o Pick("parenting_guidelines", "advice")
              \o Pick("sources", "citations")
              \o Keep("disclaimer"))

UsesLegacyKeys(data) ==
    /\ data.t = "dict"
    /\ \E key \in {"observations", "advice", "citations"} : HasKey(data, key)

\* C15 as stated: a payload with legacy keys is normalized as the payload
\* in which observations stands for maternal_feedback and for
\* child_development_insights, advice for parenting_guidelines and
\* citations for sources, a canonical key that is present taking precedence.
C15_LegacyKeys ==
    (Normalized /\ UsesLegacyKeys(fn_arg.x)) =>
        fn_ret.value = normalize_analysis_payload(LegacyAsCanonical(fn_arg.x, TRUE))

\* C15 amended: the same, observations standing for
\* child_development_insights only when it holds a non-empty list or a value
\* other than null; otherwise the insights are those derived from evidence.
C15_LegacyKeysNonEmptyObservations ==
    (Normalized /\ UsesLegacyKeys(fn_arg.x)) =>
        fn_ret.value = normalize_analysis_payload(LegacyAsCanonical(fn_arg.x, FALSE))

\* The legacy payload {observations: "m", advice: "g (s)"} has been
\* normalized to the canonical sections.
C15_Witness ==
    /\ Normalized
    /\ fn_arg.x = PyDict(<<KV("observations", PyStr(<<"m">>)),
                           KV("advice", PyStr(<<"g", " ", "(", "s", ")">>))>>)
    /\ fn_ret.value.maternal_feedback = <<<<"m">>>>
    /\ fn_ret.value.child_development_insights = <<<<"m">>>>
    /\ fn_ret.value.parenting_guidelines = <<<<"g">>>>
    /\ fn_ret.value.sources = <<PyDict(<<KV("text", PyStr(<<"s">>))>>)>>

\* The identity key of a source: its url when it has one, else its text
\* without surrounding whitespace.
IdentityKey(source) ==
    IF Truthy(DictGet(source, "url", PyNone))
    THEN <<"url", DictGet(source, "url", PyNone)>>
    ELSE <<"text", Strip(str(DictGet(source, "text", PyNone)))>>

\* C16: the sources of every result returned by request_analysis hold no
\* two sources with the same identity key.
C16_SourcesDistinct ==
    \A w \in Workers :
        (call[w].pc = "done" /\ call[w].outcome.kind = "return") =>
            LET sources == call[w].outcome.value.sources
            IN \A i, j \in 1..Len(sources) :
                   IdentityKey(sources[i]) = IdentityKey(sources[j]) => i = j

\* The metadata a call hands to persist_model_response, once it has.
Audited(c) == c.pc \in {"respond", "done"} /\ c.audit # "none"
CallerMetadata(c) ==
    IF Truthy(c.args.metadata) THEN c.args.metadata ELSE PyDict(<<>>)
PathEngine(c) ==
    PyStr(IF c.hist.returned = "A" THEN <<"responses">> ELSE <<"assistants">>)

\* C17 as stated: for every metadata of the caller, the metadata of the
\* audit record has engine = responses and web_search_enabled = true when
\* call_responses_api returned the payload, engine = assistants and
\* web_search_enabled = false when call_assistants_api did, and
\* fallback_from_responses = true exactly when call_assistants_api ran after
\* a failure of call_responses_api.
C17_MetadataIdentifiesPath ==
    \A w \in Workers :
        LET c == call[w]
        IN Audited(c) =>
              /\ DictGet(c.meta, "engine", PyNone) = PathEngine(c)
              /\ DictGet(c.meta, "web_search_enabled", PyNone)
                    = PyBool(c.hist.returned = "A")
              /\ DictGet(c.meta, "fallback_from_responses", PyNone) = PyBool(TRUE)
                    <=> (c.hist.returned = "B" /\ c.hist.A = 1)

\* C17 amended: engine is the caller's engine when the caller's metadata
\* has one and the engine of the path otherwise; web_search_enabled is that
\* of the path; fallback_from_responses is true after a fallback and is
\* otherwise what the caller's metadata holds under that key, if anything.
C17_MetadataUnlessSupplied ==
    \A w \in Workers :
        LET c == call[w]
            caller == CallerMetadata(c)
        IN Audited(c) =>
              /\ DictGet(c.meta, "engine", PyNone)
                    = DictGet(caller, "engine", PathEngine(c))
              /\ DictGet(c.meta, "web_search_enabled", PyNone)
                    = PyBool(c.hist.returned = "A")
              /\ DictGet(c.meta, "fallback_from_responses", PyNone)
                    = (IF c.hist.returned = "B" /\ c.hist.A = 1 THEN PyBool(TRUE)
                       ELSE DictGet(caller, "fallback_from_responses", PyNone))

\* An audit record was written for a payload of call_assistants_api after
\* a failure of call_responses_api, for a caller whose metadata names an
\* engine.
C17_Witness ==
    \E w \in Workers :
        /\ call[w].audit = "written"
        /\ call[w].hist.returned = "B" /\ call[w].hist.A = 1
        /\ HasKey(CallerMetadata(call[w]), "engine")
        /\ DictGet(call[w].meta, "engine", PyNone) = PyStr(<<"custom">>)
        /\ DictGet(call[w].meta, "web_search_enabled", PyNone) = PyBool(FALSE)

\* What persist_model_response may do to the file named n in one step: an
\* existing file stays as it is, and a file that appears was created by the
\* one call that took the step, which alone moved.
WriteOnce(n) ==
    /\ responses_dir[n].state # "absent" => responses_dir'[n] = responses_dir[n]
    /\ responses_dir'[n] # responses_dir[n] =>
          \E w \in Workers :
              /\ call[w].pc = "persist"
              /\ responses_dir'[n].by = call[w].id
              /\ call'[w].audit = "written" <=> responses_dir'[n].state = "complete"
              /\ \A v \in Workers \ {w} : call'[v] = call[v]
              /\ \A m \in Names \ {n} : responses_dir'[m] = responses_dir[m]

\* C18 as stated: under every interleaving of concurrent calls an audit
\* file that exists is never overwritten, truncated or deleted, every write
\* creates a new file, no two calls write the same path, and every audit
\* file holds the complete record of one call.
C18_WriteOnceComplete ==
    [][\A n \in Names : WriteOnce(n) /\ responses_dir'[n].state # "partial"]_vars

\* C18 amended: the same without completeness: a file whose json.dump
\* failed holds a part of the record of the call that created it.
C18_WriteOnce ==
    [][\A n \in Names : WriteOnce(n)]_vars

\* Two concurrent calls have each written a file, one of them after its
\* first generated name collided with the file of the other.
C18_Witness ==
    /\ \A w \in Workers : call[w].audit = "written" /\ Cardinality(FilesBy(call[w])) = 1
    /\ \E w \in Workers : call[w].hist.exists >= 1

\* C19: without an API key, a call of request_analysis that starts with
\* call_responses_api ends with the configuration error of its first
\* get_openai_client call: call_assistants_api is not invoked and
\* get_openai_client is not called a second time.
C19_ConfigurationErrorSurfaced ==
    \A w \in Workers :
        LET c == call[w]
        IN (c.pc = "done" /\ ~environ.api_key /\ c.hist.first = "A") =>
              /\ c.hist.B = 0
              /\ c.hist.inits = 1
              /\ c.args.raise_on_failure =>
                    c.outcome = Raises(HTTPException(500,
                                    "OPENAI_API_KEY environment variable is not configured."))

\* C20: every payload that call_responses_api or call_assistants_api
\* returns to request_analysis is a JSON object (a dict).
C20_PayloadIsObject ==
    \A w \in Workers :
        call[w].hist.returned # "none" => call[w].payload.t = "dict"

\* C21: a reply of the Responses API whose text parses to a JSON object
\* never makes call_responses_api raise, whatever its sources and citations
\* values and its annotations are.
C21_EnrichmentNeverFails ==
    [][\A w \in Workers :
          \A reply \in {r \in ResponsesReplies :
                            r.kind = "json" /\ r.parsed.t = "dict"} :
              (call[w].pc = "responses"
               /\ call'[w] = ResponsesStep(call[w], reply))
              => "A" \notin call'[w].hist.failed]_vars

\* The elements of a sequence.
Range(seq) == {seq[i] : i \in 1..Len(seq)}

\* C22: when call_responses_api returned a payload that came with legacy
\* citations and no sources, and the response had a URL annotation, the
\* sources of the result of request_analysis hold the legacy citations and
\* the annotation source.
C22_LegacyCitationsKept ==
    \A w \in Workers :
        LET c == call[w]
        IN (/\ c.pc = "done" /\ c.outcome.kind = "return"
            /\ c.hist.returned = "A"
            /\ c.payload.t = "dict"
            /\ DictGet(c.payload, "citations", PyNone)
                  = DictGet(LegacyPayload, "citations", PyNone)) =>
              /\ Range(GivenSources(LegacyPayload)) \subseteq Range(c.outcome.value.sources)
              /\ Range(extract_url_annotations([annotations |-> <<UrlAnnotation>>]))
                    \subseteq Range(c.outcome.value.sources)

\* The assistant messages of a thread, newest first.
AssistantMessages(messages) == SelectSeq(messages, LAMBDA m : m.role = "assistant")

\* C23: the output text of call_assistants_api is made of the text parts of
\* the newest assistant message only; when that message has no non-empty
\* text part (or there is no assistant message) the call fails with the
\* empty-content error.
C23_NewestAssistantMessage ==
    (fn_arg.fn = "output_text" /\ fn_ret.done) =>
        LET assistant == AssistantMessages(fn_arg.x)
            text == IF Len(assistant) = 0 THEN <<>>
                    ELSE Strip(Join(TextValues(assistant[1].content), <<"\n">>))
        IN fn_ret.value =
              (IF Len(text) = 0
               THEN Raises(HTTPException(502, "Assistant returned empty content."))
               ELSE Returned(text))

\* No request is being served.
Quiescent == \A w \in Workers : call[w].pc \in {"idle", "done"}
\* The identifiers of profiles that exist upstream.
CreatedProfiles == {CreatedId(n) : n \in 1..assistants_created}
\* The identifiers that write_text has written to the cache file.
WrittenProfiles == {written.id : written \in cache_writes}

\* C24 as stated: with no override and no cache file at the start, every
\* call starts its run with the identifier of a profile that was created,
\* and when the calls that created profiles have finished the cache file
\* holds the identifier of one of the created profiles.
C24_CacheHoldsCreatedProfile ==
    /\ \A w \in Workers :
           call[w].pc = "run" => call[w].assistant_id \in CreatedProfiles
    /\ (Quiescent /\ assistants_created >= 1) =>
           (CachedIdentifier /\ assistant_file.id \in CreatedProfiles)

\* C24 amended: the cache file holds the identifier of a created profile at
\* the end when write_text succeeded for every created profile; it never
\* holds an identifier that was not written by a creation; and a call that
\* read an identifier in the file created no profile.
C24_CacheHoldsWrittenProfile ==
    /\ \A w \in Workers :
           /\ call[w].pc = "run" => call[w].assistant_id \in CreatedProfiles
           /\ call[w].hist.seen.kind = "id" => call[w].hist.created = 0
    /\ WrittenProfiles \subseteq CreatedProfiles
    /\ CachedIdentifier => assistant_file.id \in WrittenProfiles
    /\ (Quiescent /\ assistants_created >= 1
                  /\ WrittenProfiles = CreatedProfiles) => CachedIdentifier

\* Two concurrent calls have each created a profile and written its
\* identifier, and the cache file holds one of the two.
C24_Witness ==
    /\ Quiescent
    /\ assistants_created = 2
    /\ WrittenProfiles = CreatedProfiles
    /\ CachedIdentifier /\ assistant_file.id \in CreatedProfiles
    /\ \A w \in Workers : call[w].pc = "done" /\ call[w].hist.created = 1

\* C25: when the payload of the upstream has evidence items and neither
\* child_development_insights nor observations, the result of
\* request_analysis has the child_development_insights derived from the
\* evidence items.
C25_InsightsFromEvidence ==
    \A w \in Workers :
        LET c == call[w]
        IN (/\ c.pc = "done" /\ c.outcome.kind = "return"
            /\ c.hist.returned # "none"
            /\ c.payload.t = "dict"
            /\ HasKey(c.payload, "evidence")
            /\ ~HasKey(c.payload, "child_development_insights")
            /\ ~HasKey(c.payload, "observations")) =>
              c.outcome.value.child_development_insights
                  = EvidenceInsights(normalize_analysis_list(
                        DictGet(c.payload, "evidence", PyNone)))

\* C26: no list of strings in a result of normalize_analysis_payload
\* (maternal_feedback, child_development_insights, parenting_guidelines)
\* holds an empty string.
C26_NoEmptyItems ==
    (fn_arg.fn = "normalize_analysis_payload" /\ fn_ret.done) =>
        \A field \in {"maternal_feedback", "child_development_insights",
                       "parenting_guidelines"} :
            \A item \in Range(fn_ret.value[field]) : Len(item) > 0

\* C27: once request_analysis has written the audit record of a payload,
\* the call ends by returning the normalization of that payload: it neither
\* raises nor returns the empty analysis of the fallback.
C27_AuditedPayloadReturned ==
    \A w \in Workers :
        (call[w].pc = "done" /\ call[w].audit = "written") =>
            call[w].outcome = Returned(normalize_analysis_payload(call[w].payload))

\* C28: get_openai_client never returns a handle that failed its
\* initialisation: when a call of get_openai_client has raised, the cached
\* handle (_openai_client) is still unset.
C28_RejectedHandleNotCached ==
    [][\A w \in Workers :
          (/\ call[w].pc \in {"client", "client_build", "client_validate"}
           /\ call[w].proto \notin call[w].hist.failed
           /\ call[w].proto \in call'[w].hist.failed)
          => openai_client' = 0]_vars

\* C29: normalize_analysis_payload applied to its own result returns that
\* result, for every input: the analysis read back from the store equals
\* the analysis that was stored.
C29_NormalizeIdempotent ==
    (fn_arg.fn = "normalize_analysis_payload" /\ fn_ret.done) =>
        normalize_analysis_payload(AnalysisDict(fn_ret.value)) = fn_ret.value

\* A protocol client returned a JSON object to the task's request_analysis.
ProtocolSucceeded(c) == c.hist.returned # "none" /\ c.payload.t = "dict"

\* C30: a background task that has returned for an entry with a row has
\* written analysis_json of that row exactly once and nothing else: the
\* normalization of the result of request_analysis when a protocol client
\* returned a JSON object, and the canonical empty analysis after any
\* upstream failure; a task for an entry without row has made no upstream
\* call and written nothing.
C30_TaskStoresOneAnalysis ==
    \A w \in Workers :
        LET c == call[w]
            e == c.task.entry_id
        IN c.task.pc = "returned" =>
              IF c.task.before[e].exists
              THEN \E stored \in {IF ProtocolSucceeded(c)
                                   THEN normalize_analysis_payload(
                                            AnalysisDict(c.outcome.value))
                                   ELSE EmptyAnalysis} :
                       /\ c.outcome.kind = "return"
                       /\ ProtocolSucceeded(c) =>
                              c.outcome.value = normalize_analysis_payload(
                                                    payload_with_disclaimer(c.payload))
                       /\ entries_table =
                              [c.task.before EXCEPT ![e].analysis_json = Append(@, stored)]
              ELSE /\ c.hist.A = 0 /\ c.hist.B = 0 /\ ~c.hist.net
                   /\ c.hist.inits = 0
                   /\ entries_table = c.task.before

\* A task for the entry with a row returned after both protocol clients
\* failed, and the row holds the empty analysis.
C30_Witness ==
    \E w \in Workers :
        /\ call[w].task.pc = "returned"
        /\ call[w].task.entry_id = 1
        /\ call[w].hist.failed = {"A", "B"}
        /\ call[w].hist.net
        /\ entries_table[1].analysis_json = <<EmptyAnalysis>>
====
